---------------------------- MODULE Spec2Model ----------------------------
(***************************************************************************)
(* HabitMaster: the statistics aggregation services (heatmap, streak,      *)
(* monthly rate) over the habit_logs and tasks tables, and the task        *)
(* service that writes them.                                               *)
(*                                                                         *)
(* Time is counted in hours since 2024-01-01T00:00Z.  A calendar date (the *)
(* 'YYYY-MM-DD' strings of the code) is the number of whole days since     *)
(* 2024-01-01; ISO date strings compare and parse exactly as these         *)
(* numbers do.                                                             *)
(***************************************************************************)
EXTENDS Integers, Sequences, FiniteSets, TLC

VARIABLES
    now,         \* the wall clock: Date.now() / new Date(), in hours
    tz,          \* the time zone of the JavaScript runtime (browser)
    tasks,       \* table public.tasks: rows [id, user_id, completed]
    habit_logs,  \* table public.habit_logs: rows [user_id, task_id, completed_date]
    ret,         \* what the latest service call gave its caller
    focus_sessions, \* table public.focus_sessions: rows [id, user_id, duration_minutes, mode, completed_at]
    timer,       \* the state of the Focus page (its React state and effects)
    auth,        \* the state of AuthProvider and of its requests in flight
    app,         \* the state of AppContent: task list, cache, requests in flight
    user_profiles, \* table public.user_profiles: rows [user_id, nickname, email, level, xp, rank, streak, max_streak]
    profile_calls  \* the calls of the profile service, in the order they began

vars == <<now, tz, tasks, habit_logs, ret, focus_sessions, timer, auth, app,
          user_profiles, profile_calls>>

\* the variables of the profile service
profiles == <<user_profiles, profile_calls>>

\* the variables the stats and task services never touch
others == <<focus_sessions, timer, auth, app, profiles>>

-----------------------------------------------------------------------------
(* Bounds of the model *)

\* number of days the clock runs past its first day (Spec)
MaxDays == 1
\* task ids the task service can hand out (Spec)
MaxTasks == 2
\* largest window asked of getHabitHeatmap
MaxWindow == 3
\* rows drawn into habit_logs (SpecStreak)
MaxRows == 4
\* days before today on which a drawn row can lie (SpecStreak)
MaxBack == 5
\* completion events drawn on one date (SpecHeat)
MaxCount == 6

-----------------------------------------------------------------------------
(* The calendar and the clock *)

\* 86400000 ms, one day, in hours
MsPerDay == 24

\* the hours of the day at which the model samples the clock
SampleHours == {2, 23}

\* first days of the months of 2024 (2024-01-01 is day 0)
MonthStarts == {0, 31, 60, 91, 121, 152, 182}

\* 2024-03-31, the first day the clock of Spec shows
FirstDay == 60 + 30

Users == {"u1", "u2"}

TimeZones == {"UTC", "Asia/Shanghai", "Europe/Berlin", "America/New_York"}

\* the zone's offset rule around the modelled window: the UTC offset (hours)
\* before and after the instant `at` of its one daylight-saving transition
ZoneRule(z) ==
    CASE z = "UTC"              -> [at |-> 0, before |-> 0, after |-> 0]
      [] z = "Asia/Shanghai"    -> [at |-> 0, before |-> 8, after |-> 8]
      [] z = "Europe/Berlin"    -> [at |-> FirstDay * 24 + 1, before |-> 1, after |-> 2]
      [] z = "America/New_York" -> [at |-> 69 * 24 + 7, before |-> 0 - 5, after |-> 0 - 4]

\* LocalTime(t) of ECMAScript: the local wall-clock reading of instant t
LocalTime(t, z) ==
    LET r == ZoneRule(z) IN IF t < r.at THEN t + r.before ELSE t + r.after

\* UTC(t) of ECMAScript: the instant of a local wall-clock reading; a reading
\* skipped by the transition is interpreted with the offset before it
UTCOf(lt, z) ==
    LET r == ZoneRule(z) IN IF lt - r.after >= r.at THEN lt - r.after ELSE lt - r.before

\* d.toISOString().split('T')[0]: the UTC calendar date of an instant
ISODate(t) == t \div MsPerDay

\* new Date('YYYY-MM-DD').getTime(): UTC midnight of the date
DateParse(d) == d * MsPerDay

\* d.setDate(d.getDate() - i): i days earlier on the local calendar, same
\* local wall-clock time
SetDateBack(t, i, z) == UTCOf(LocalTime(t, z) - i * MsPerDay, z)

\* the local calendar day of an instant (getFullYear/getMonth/getDate)
LocalDay(t, z) == LocalTime(t, z) \div MsPerDay

MonthStartOf(d) == CHOOSE s \in MonthStarts : s <= d /\ \A q \in MonthStarts : q <= d => q <= s

\* d.getDate(): day of the month, 1-based, on the local calendar
GetDate(t, z) == LocalDay(t, z) - MonthStartOf(LocalDay(t, z)) + 1

\* new Date(now.getFullYear(), now.getMonth(), 1): local midnight of the 1st
FirstOfMonth(t, z) == UTCOf(MonthStartOf(LocalDay(t, z)) * MsPerDay, z)

Max(a, b) == IF a >= b THEN a ELSE b

\* Math.round(p / q * 100) for integers p >= 0, q > 0: halves round up.
\* Exact arithmetic; the double evaluation of p / q * 100 agrees with it for
\* every q < 40 (it first differs at p = 23, q = 40: 57 instead of 58).
RoundPercent(p, q) == (200 * p + q) \div (2 * q)

-----------------------------------------------------------------------------
(* The store: queries *)

NoCall == [op |-> "none", user |-> "", arg |-> 0, failed |-> {}, status |-> "none", value |-> 0]

Call(op, user, arg, failed, status, value) ==
    [op |-> op, user |-> user, arg |-> arg, failed |-> failed, status |-> status, value |-> value]

\* from('habit_logs').eq('user_id', userId).gte('completed_date', since)
LogsSince(userId, since) ==
    {l \in habit_logs : l.user_id = userId /\ l.completed_date >= since}

\* from('habit_logs').eq('user_id', userId)
LogsOf(userId) == {l \in habit_logs : l.user_id = userId}

\* from('tasks').select('id').eq('user_id', userId)
TasksOf(userId) == {t \in tasks : t.user_id = userId}

-----------------------------------------------------------------------------
(* stats-service: getHabitHeatmap *)

\* HeatLevel with the thresholds compared by > instead of >=
HeatLevel_Strict(count) ==
    IF count > 5 THEN 3
    ELSE IF count > 3 THEN 2
    ELSE IF count > 1 THEN 1
    ELSE 0

\* the 0-3 colour level of a day's completion count
HeatLevel(count) ==
    IF count >= 5 THEN 3
    ELSE IF count >= 3 THEN 2
    ELSE IF count >= 1 THEN 1
    ELSE 0

\* the date string of the cell i days back: new Date(), setDate(getDate() - i),
\* toISOString().split('T')[0]
CellDate(t, i, z) == ISODate(SetDateBack(t, i, z))

\* countMap.get(dateStr) ?? 0, countMap built by one pass over the rows
CountOn(data, dateStr) == Cardinality({l \in data : l.completed_date = dateStr})

\* the result array: i runs from days down to 0, one push per iteration
HeatmapCells(data, days, t, z) ==
    [k \in 1..(days + 1) |->
        LET dateStr == CellDate(t, days - (k - 1), z)
            count   == CountOn(data, dateStr)
        IN  [date |-> dateStr, count |-> count, level |-> HeatLevel(count)]]

\* what getHabitHeatmap gives its caller when the habit_logs query fails
HeatmapOnError(userId, days) ==
    Call("getHabitHeatmap", userId, days, {"habit_logs"}, "error", <<>>)

getHabitHeatmap(userId, days, queryFails) ==
    /\ ret' = IF queryFails
              THEN HeatmapOnError(userId, days)
              ELSE Call("getHabitHeatmap", userId, days, {}, "ok",
                        HeatmapCells(LogsSince(userId, CellDate(now, days, tz)), days, now, tz))
    /\ UNCHANGED <<now, tz, tasks, habit_logs, others>>

-----------------------------------------------------------------------------
(* stats-service: getStreakData *)

\* the rows of a query .order('completed_date', {ascending: false}), of which
\* only completed_date is selected
RECURSIVE RowsDesc(_)
RowsDesc(S) ==
    IF S = {} THEN <<>>
    ELSE LET m == CHOOSE r \in S : \A q \in S : q.completed_date <= r.completed_date
         IN  <<m.completed_date>> \o RowsDesc(S \ {m})

\* [...new Set(dates)]: the first occurrences, in order
RECURSIVE SetOf(_)
SetOf(dates) ==
    IF dates = <<>> THEN <<>>
    ELSE LET front == SetOf(SubSeq(dates, 1, Len(dates) - 1))
             last  == dates[Len(dates)]
         IN  IF \E i \in 1..Len(front) : front[i] = last THEN front ELSE Append(front, last)

\* insertion of x into a sequence sorted by (a, b) => new Date(b) - new Date(a)
RECURSIVE InsertDesc(_, _)
InsertDesc(sorted, x) ==
    IF sorted = <<>> THEN <<x>>
    ELSE IF DateParse(x) - DateParse(sorted[1]) > 0 THEN <<x>> \o sorted
    ELSE <<sorted[1]>> \o InsertDesc(Tail(sorted), x)

\* Array.prototype.sort with that comparator
RECURSIVE SortDesc(_)
SortDesc(dates) ==
    IF dates = <<>> THEN <<>>
    ELSE InsertDesc(SortDesc(SubSeq(dates, 1, Len(dates) - 1)), dates[Len(dates)])

\* UniqueDates without the Set: sorted, duplicates kept
UniqueDates_NoSet(dates) == SortDesc(dates)

\* uniqueDates: deduplicated, most recent first
UniqueDates(dates) == SortDesc(SetOf(dates))

\* diff === 1 for uniqueDates[i - 1] and uniqueDates[i]
DiffIsOne(u, i) == DateParse(u[i - 1]) - DateParse(u[i]) = MsPerDay

\* the first loop from index i on: the increments of currentStreak up to the break
RECURSIVE CurrentLoop(_, _)
CurrentLoop(u, i) ==
    IF i > Len(u) THEN 0
    ELSE IF DiffIsOne(u, i) THEN 1 + CurrentLoop(u, i + 1)
    ELSE 0

\* CurrentStreak with a log that ends yesterday no longer counted
CurrentStreak_TodayOnly(u, today, yesterday) ==
    IF u[1] = today THEN 1 + CurrentLoop(u, 2) ELSE 0

\* CurrentStreak without the test of how recent the latest date is
CurrentStreak_AnyAge(u, today, yesterday) == 1 + CurrentLoop(u, 2)

\* currentStreak: counted only from today or yesterday
CurrentStreak(u, today, yesterday) ==
    IF u[1] = today \/ u[1] = yesterday THEN 1 + CurrentLoop(u, 2) ELSE 0

\* the second loop from index i on, with the loop's maxStreak and tempStreak
RECURSIVE MaxLoop(_, _, _, _)
MaxLoop(u, i, maxStreak, tempStreak) ==
    IF i > Len(u) THEN maxStreak
    ELSE IF DiffIsOne(u, i)
         THEN MaxLoop(u, i + 1, Max(maxStreak, tempStreak + 1), tempStreak + 1)
         ELSE MaxLoop(u, i + 1, maxStreak, 1)

\* ReturnedMax without the final Math.max
ReturnedMax_LoopOnly(maxStreak, currentStreak) == maxStreak

\* the returned maxStreak: Math.max(maxStreak, currentStreak)
ReturnedMax(maxStreak, currentStreak) == Max(maxStreak, currentStreak)

\* the value getStreakData computes from the rows `dates` at instant t
StreakOf(dates, t) ==
    IF Len(dates) = 0 THEN [currentStreak |-> 0, maxStreak |-> 0]
    ELSE LET u         == UniqueDates(dates)
             today     == ISODate(t)
             yesterday == ISODate(t - MsPerDay)
             current   == CurrentStreak(u, today, yesterday)
         IN  [currentStreak |-> current,
              maxStreak     |-> ReturnedMax(MaxLoop(u, 2, 0, 1), current)]

getStreakData(userId, queryFails) ==
    /\ ret' = IF queryFails
              THEN Call("getStreakData", userId, 0, {"habit_logs"}, "error", <<>>)
              ELSE Call("getStreakData", userId, 0, {}, "ok",
                        StreakOf(RowsDesc(LogsOf(userId)), now))
    /\ UNCHANGED <<now, tz, tasks, habit_logs, others>>

-----------------------------------------------------------------------------
(* stats-service: getMonthlyStats *)

\* what getMonthlyStats does when its second query, on tasks, fails: the
\* error of that query is not read and tasks?.length ?? 0 is 0
TaskCount(userId, tasksFail) == IF tasksFail THEN 0 ELSE Cardinality(TasksOf(userId))

MonthlyOf(completed, taskCount, daysElapsed) ==
    LET total == taskCount * daysElapsed
    IN  [completed |-> completed,
         total     |-> total,
         rate      |-> IF total > 0 THEN RoundPercent(completed, total) ELSE 0]

getMonthlyStats(userId, logsFail, tasksFail) ==
    /\ ret' = IF logsFail
              THEN Call("getMonthlyStats", userId, 0, {"habit_logs"}, "error", <<>>)
              ELSE Call("getMonthlyStats", userId, 0,
                        IF tasksFail THEN {"tasks"} ELSE {}, "ok",
                        MonthlyOf(Cardinality(LogsSince(userId, ISODate(FirstOfMonth(now, tz)))),
                                  TaskCount(userId, tasksFail),
                                  GetDate(now, tz)))
    /\ UNCHANGED <<now, tz, tasks, habit_logs, others>>

-----------------------------------------------------------------------------
(* task service: createTask, toggleTask, deleteTask *)

TaskIds == 1..MaxTasks

\* the row .eq('id', id).eq('user_id', userId) selects, if any
TaskRows(id, userId) == {t \in tasks : t.id = id /\ t.user_id = userId}

\* the habit_logs row toggleTask upserts
LogRow(id, userId, t) == [user_id |-> userId, task_id |-> id, completed_date |-> ISODate(t)]

\* upsert(..., {onConflict: 'user_id,task_id,completed_date'}): the table
\* afterwards; a failed request leaves it as it was
Upsert(logs, row, fails) == IF fails THEN logs ELSE logs \cup {row}

\* toggleTask with the event of the day deleted when a task is un-completed
LogsAfterToggle_Remove(id, userId, completed, upsertFails) ==
    IF completed THEN Upsert(habit_logs, LogRow(id, userId, now), upsertFails)
    ELSE habit_logs \ {LogRow(id, userId, now)}

\* habit_logs after toggleTask's update of tasks went through
LogsAfterToggle(id, userId, completed, upsertFails) ==
    IF completed THEN Upsert(habit_logs, LogRow(id, userId, now), upsertFails) ELSE habit_logs

createTask(id, userId, completed, insertFails) ==
    /\ \A t \in tasks : t.id # id
    /\ IF insertFails
       THEN /\ ret' = Call("createTask", userId, id, {"tasks"}, "error", <<>>)
            /\ UNCHANGED tasks
       ELSE LET row == [id |-> id, user_id |-> userId, completed |-> completed]
            IN  /\ tasks' = tasks \cup {row}
                /\ ret' = Call("createTask", userId, id, {}, "ok", row)
    /\ UNCHANGED <<now, tz, habit_logs, others>>

toggleTask(id, userId, completed, updateFails, upsertFails) ==
    IF updateFails \/ TaskRows(id, userId) = {}
    THEN \* the update's error (a request error, or no row for .single()) is thrown
         /\ ret' = Call("toggleTask", userId, id, {"tasks"}, "error", <<>>)
         /\ UNCHANGED <<now, tz, tasks, habit_logs, others>>
    ELSE LET row == [id |-> id, user_id |-> userId, completed |-> completed]
         IN  /\ tasks' = (tasks \ TaskRows(id, userId)) \cup {row}
             /\ habit_logs' = LogsAfterToggle(id, userId, completed, upsertFails)
             /\ ret' = Call("toggleTask", userId, id,
                            IF completed /\ upsertFails THEN {"habit_logs"} ELSE {}, "ok", row)
             /\ UNCHANGED <<now, tz, others>>

deleteTask(id, userId, deleteFails) ==
    IF deleteFails
    THEN /\ ret' = Call("deleteTask", userId, id, {"tasks"}, "error", <<>>)
         /\ UNCHANGED <<now, tz, tasks, habit_logs, others>>
    ELSE /\ tasks' = tasks \ TaskRows(id, userId)
         \* habit_logs.task_id REFERENCES tasks(id) ON DELETE CASCADE
         /\ habit_logs' = IF TaskRows(id, userId) = {} THEN habit_logs
                          ELSE {l \in habit_logs : l.task_id # id}
         /\ ret' = Call("deleteTask", userId, id, {}, "ok", <<>>)
         /\ UNCHANGED <<now, tz, others>>

-----------------------------------------------------------------------------
(* The clock *)

LastInstant == (FirstDay + MaxDays) * MsPerDay + 23

\* time passes, up to the next hour the model samples
Tick ==
    /\ \E dt \in 1..MsPerDay :
          /\ (now + dt) % MsPerDay \in SampleHours
          /\ \A e \in 1..(dt - 1) : (now + e) % MsPerDay \notin SampleHours
          /\ now + dt <= LastInstant
          /\ now' = now + dt
    /\ ret' = NoCall
    /\ UNCHANGED <<tz, tasks, habit_logs, others>>

-----------------------------------------------------------------------------
(* The pages and the provider before they are mounted *)

TimerUnmounted == [mounted |-> FALSE]
AuthUnmounted == [mounted |-> FALSE]
AppUnmounted == [mounted |-> FALSE]

\* no focus session recorded, no component mounted
AtRest ==
    /\ focus_sessions = {}
    /\ timer = TimerUnmounted
    /\ auth = AuthUnmounted
    /\ app = AppUnmounted
    /\ user_profiles = {}
    /\ profile_calls = <<>>

-----------------------------------------------------------------------------
(* Spec: the services called in any order while time passes *)

Init ==
    /\ now = FirstDay * MsPerDay + 2
    /\ tz \in TimeZones
    /\ tasks = {}
    /\ habit_logs = {}
    /\ ret = NoCall
    /\ AtRest

Next ==
    \/ Tick
    \/ \E id \in TaskIds, u \in Users, c \in BOOLEAN, f \in BOOLEAN : createTask(id, u, c, f)
    \/ \E id \in TaskIds, u \in Users, c \in BOOLEAN, f \in BOOLEAN, g \in BOOLEAN :
          toggleTask(id, u, c, f, g)
    \/ \E id \in TaskIds, u \in Users, f \in BOOLEAN : deleteTask(id, u, f)
    \/ \E u \in Users, days \in 0..MaxWindow, f \in BOOLEAN : getHabitHeatmap(u, days, f)
    \/ \E u \in Users, f \in BOOLEAN : getStreakData(u, f)
    \/ \E u \in Users, f \in BOOLEAN, g \in BOOLEAN : getMonthlyStats(u, f, g)

Spec == Init /\ [][Next]_vars

-----------------------------------------------------------------------------
(* SpecStreak: getStreakData on every small log *)

\* the tasks rows that the rows of a log refer to
TasksFor(logs) ==
    {[id |-> l.task_id, user_id |-> l.user_id, completed |-> FALSE] : l \in logs}

\* 2024-04-01, the day of the calls
StreakDay == FirstDay + 1

\* the rows a drawn log is made of: two habits of u1 over the last days, one
\* habit of u2 yesterday and today
StreakRows ==
    {[user_id |-> "u1", task_id |-> k, completed_date |-> d] :
        k \in 1..2, d \in (StreakDay - MaxBack)..StreakDay}
    \cup {[user_id |-> "u2", task_id |-> 3, completed_date |-> d] :
        d \in (StreakDay - 1)..StreakDay}

InitStreak ==
    /\ now \in {StreakDay * MsPerDay + h : h \in SampleHours}
    /\ tz \in TimeZones
    /\ habit_logs \in {S \in SUBSET StreakRows : Cardinality(S) <= MaxRows}
    /\ tasks = TasksFor(habit_logs)
    /\ ret = NoCall
    /\ AtRest

NextStreak == \E u \in Users, f \in BOOLEAN : getStreakData(u, f)

SpecStreak == InitStreak /\ [][NextStreak]_vars

-----------------------------------------------------------------------------
(* SpecHeat: getHabitHeatmap on logs with up to MaxCount events a day *)

\* a log of u1 with counts[d] events on the day d days before StreakDay
HeatLog(counts) ==
    {[user_id |-> "u1", task_id |-> k, completed_date |-> StreakDay - d] :
        d \in DOMAIN counts, k \in 1..MaxCount} \cap
    {l \in [user_id : {"u1"}, task_id : 1..MaxCount,
            completed_date : (StreakDay - 3)..StreakDay] :
        l.task_id <= counts[StreakDay - l.completed_date]}

InitHeat ==
    /\ now = StreakDay * MsPerDay + 23
    /\ tz \in TimeZones
    /\ \E counts \in [0..3 -> 0..MaxCount] : habit_logs = HeatLog(counts)
    /\ tasks = TasksFor(habit_logs)
    /\ ret = NoCall
    /\ AtRest

NextHeat == \E u \in Users, days \in 0..MaxWindow, f \in BOOLEAN : getHabitHeatmap(u, days, f)

SpecHeat == InitHeat /\ [][NextHeat]_vars

-----------------------------------------------------------------------------
(* Streak claims (SpecStreak) *)

\* today as the services see it: the UTC date of the clock
Today == ISODate(now)

\* the distinct completion dates of an owner
DatesOf(userId) == {l.completed_date : l \in LogsOf(userId)}

MaxOf(D) == CHOOSE m \in D : \A d \in D : d <= m

\* the length of the run of consecutive days of D that ends at m
RunEndingAt(D, m) ==
    CHOOSE k \in 1..Cardinality(D) :
        /\ \A j \in 0..(k - 1) : (m - j) \in D
        /\ (m - k) \notin D

\* the length of the longest run of consecutive days of D
LongestRun(D) == MaxOf({RunEndingAt(D, m) : m \in D})

\* getStreakData has just returned a value to its caller
StreakReturned == ret.op = "getStreakData" /\ ret.status = "ok"

\* C1: when the most recent completion date is today or yesterday,
\* currentStreak is the length of the run of consecutive days that ends at
\* that date; when it is older than yesterday, currentStreak is 0.
C1_CurrentStreakIsRun ==
    (StreakReturned /\ DatesOf(ret.user) # {}) =>
        LET D    == DatesOf(ret.user)
            most == MaxOf(D)
        IN  /\ most \in {Today, Today - 1} => ret.value.currentStreak = RunEndingAt(D, most)
            /\ most < Today - 1 => ret.value.currentStreak = 0

\* the scenario [today, today-1, today-2, today-5] has given currentStreak 3
C1_Witness ==
    /\ StreakReturned
    /\ DatesOf(ret.user) = {Today, Today - 1, Today - 2, Today - 5}
    /\ ret.value.currentStreak = 3

\* C2: for every non-empty log, maxStreak is the length of the longest run of
\* consecutive days among the distinct completion dates (so 1, not 0, when
\* every date is isolated).
C2_MaxStreakIsLongestRun ==
    (StreakReturned /\ DatesOf(ret.user) # {}) =>
        ret.value.maxStreak = LongestRun(DatesOf(ret.user))

\* C3 as claimed: a most recent completion date earlier than today gives
\* currentStreak 0.
C3_ZeroWhenNotToday ==
    (StreakReturned /\ DatesOf(ret.user) # {} /\ MaxOf(DatesOf(ret.user)) < Today) =>
        ret.value.currentStreak = 0

\* C3 amended: a most recent completion date earlier than yesterday gives
\* currentStreak 0.
C3_ZeroWhenOlderThanYesterday ==
    (StreakReturned /\ DatesOf(ret.user) # {} /\ MaxOf(DatesOf(ret.user)) < Today - 1) =>
        ret.value.currentStreak = 0

\* a log whose last two days are the day before yesterday and the day before
\* that has given currentStreak 0
C3_Witness ==
    /\ StreakReturned
    /\ {Today - 2, Today - 3} \subseteq DatesOf(ret.user)
    /\ MaxOf(DatesOf(ret.user)) = Today - 2
    /\ ret.value.currentStreak = 0

\* C4: maxStreak >= currentStreak >= 0 for every log, and an empty log gives
\* {currentStreak: 0, maxStreak: 0}.
C4_MaxAtLeastCurrent ==
    StreakReturned =>
        /\ ret.value.currentStreak >= 0
        /\ ret.value.maxStreak >= ret.value.currentStreak
        /\ DatesOf(ret.user) = {} => ret.value = [currentStreak |-> 0, maxStreak |-> 0]

\* a live streak of one day next to an older, longer run
C4_Witness ==
    /\ StreakReturned
    /\ ret.value.currentStreak = 1
    /\ ret.value.maxStreak = 3

\* the rows `dates` in the order f
Reordered(dates, f) == [i \in 1..Len(dates) |-> dates[f[i]]]

\* C5: the streak result is the same for every order of the rows of the log,
\* with a further event on a date that already has one, and for the distinct
\* dates alone.
C5_OnlyDistinctDatesCount ==
    StreakReturned =>
        LET data == RowsDesc(LogsOf(ret.user))
            once == SetOf(data)
        IN  /\ \A f \in Permutations(1..Len(data)) :
                  StreakOf(Reordered(data, f), now) = ret.value
            /\ \A i \in 1..Len(data) :
                  /\ StreakOf(Append(data, data[i]), now) = ret.value
                  /\ StreakOf(<<data[i]>> \o data, now) = ret.value
            /\ \A f \in Permutations(1..Len(once)) :
                  StreakOf(Reordered(once, f), now) = ret.value

\* a streak of two days or more counted from a log with two events on one date
C5_Witness ==
    /\ StreakReturned
    /\ Cardinality(LogsOf(ret.user)) > Cardinality(DatesOf(ret.user))
    /\ ret.value.currentStreak >= 2

-----------------------------------------------------------------------------
(* Heatmap claims (SpecHeat, Spec) *)

\* getHabitHeatmap has just returned a value to its caller
HeatmapReturned == ret.op = "getHabitHeatmap" /\ ret.status = "ok"

\* C6: getHabitHeatmap(owner, N) returns N+1 cells, one for each of the
\* consecutive days today-N .. today in ascending order, the last one today,
\* none repeated or skipped, with count 0 on days without events.
C6_OneCellPerDay ==
    HeatmapReturned =>
        /\ Len(ret.value) = ret.arg + 1
        /\ \A k \in 1..Len(ret.value) :
              /\ ret.value[k].date = Today - ret.arg + (k - 1)
              /\ ret.value[k].date \notin DatesOf(ret.user) => ret.value[k].count = 0

\* C7: every cell's level is the step function of its count (0 -> 0, 1..2 -> 1,
\* 3..4 -> 2, 5 and more -> 3), so it lies in 0..3 and never decreases as the
\* count grows.
C7_LevelIsStepOfCount ==
    HeatmapReturned =>
        /\ \A k \in 1..Len(ret.value) :
              LET c == ret.value[k].count
                  v == ret.value[k].level
              IN  /\ v \in 0..3
                  /\ c = 0 => v = 0
                  /\ (1 <= c /\ c < 3) => v = 1
                  /\ (3 <= c /\ c < 5) => v = 2
                  /\ c >= 5 => v = 3
        /\ \A j, k \in 1..Len(ret.value) :
              ret.value[j].count <= ret.value[k].count =>
                  ret.value[j].level <= ret.value[k].level

\* the scenario: counts 0, 2, 4, 6 over a window of 3 have given levels 0, 1, 2, 3
C7_Witness ==
    /\ HeatmapReturned
    /\ ret.arg = 3
    /\ [k \in 1..Len(ret.value) |-> ret.value[k].count] = <<0, 2, 4, 6>>
    /\ [k \in 1..Len(ret.value) |-> ret.value[k].level] = <<0, 1, 2, 3>>

\* C8: each cell's count is the number of the owner's events on the cell's
\* date, and every event of the owner dated in today-N .. today is counted in
\* exactly one cell.
C8_EveryEventInOneCell ==
    HeatmapReturned =>
        /\ \A k \in 1..Len(ret.value) :
              ret.value[k].count =
                  Cardinality({l \in LogsOf(ret.user) : l.completed_date = ret.value[k].date})
        /\ \A l \in LogsOf(ret.user) :
              (Today - ret.arg <= l.completed_date /\ l.completed_date <= Today) =>
                  Cardinality({k \in 1..Len(ret.value) :
                                  ret.value[k].date = l.completed_date}) = 1

-----------------------------------------------------------------------------
(* Failure and monthly-rate claims (Spec) *)

AggregationCalls == {"getHabitHeatmap", "getStreakData", "getMonthlyStats",
                     "getFocusChartData", "getTodayFocusStats"}

\* C9: an aggregation call one of whose store queries failed ends with an
\* error and gives its caller no value.
C9_QueryFailureIsThrown ==
    (ret.op \in AggregationCalls /\ ret.failed # {}) =>
        /\ ret.status = "error"
        /\ ret.value = <<>>

\* getMonthlyStats has just returned a value to its caller
MonthlyReturned == ret.op = "getMonthlyStats" /\ ret.status = "ok"

\* the rate the claim gives for a completed count and an expected total
ClaimedRate(completed, total) ==
    IF total > 0 THEN RoundPercent(completed, total) ELSE 0

\* C10: getMonthlyStats returns total = habitCount x daysElapsedInMonth and
\* rate = round(completed / total x 100) when total > 0, unclamped, and
\* rate = 0 when habitCount = 0.
C10_TotalAndRate ==
    MonthlyReturned =>
        LET habitCount == Cardinality(TasksOf(ret.user))
        IN  /\ ret.value.total = habitCount * GetDate(now, tz)
            /\ ret.value.rate = ClaimedRate(ret.value.completed, ret.value.total)
            /\ habitCount = 0 => ret.value.rate = 0

\* C10 on the calls whose two queries both answered
C10_WhenTasksCounted ==
    (MonthlyReturned /\ ret.failed = {}) => C10_TotalAndRate

\* a rate above 100 has been returned
C10_Over100 == MonthlyReturned /\ ret.failed = {} /\ ret.value.rate > 100

-----------------------------------------------------------------------------
(* focus-service: the calendar fields it reads *)

\* d.getHours(): hour of the day on the local clock
GetHours(t, z) == LocalTime(t, z) % MsPerDay

\* d.getDay(): day of the week on the local calendar, 0 = Sunday
\* (2024-01-01 is a Monday)
GetDay(t, z) == (LocalDay(t, z) + 1) % 7

\* d.getMonth(): month of the year on the local calendar, 0 = January
GetMonth(t, z) == Cardinality({s \in MonthStarts : s <= LocalDay(t, z)}) - 1

\* d.setHours(0, 0, 0, 0): local midnight of the instant's local day
LocalMidnight(t, z) == UTCOf(LocalDay(t, z) * MsPerDay, z)

\* new Date(now.getFullYear(), 0, 1): local midnight of January 1st, 2024
FirstOfYear(t, z) == UTCOf(0, z)

\* Math.ceil(a / b) for integers a >= 0, b > 0
CeilDiv(a, b) == (a + b - 1) \div b

-----------------------------------------------------------------------------
(* focus-service: recordFocusSession, getTodayFocusStats, getFocusChartData *)

\* sessions the focus_sessions table can hold (SpecFocus)
MaxSessions == 4

\* the periods of the chart: ri, zhou, yue, nian in the source
Periods == {"day", "week", "month", "year"}

\* `${hours.toString().padStart(2, '0')}:00`
HourLabels ==
    <<"00:00", "01:00", "02:00", "03:00", "04:00", "05:00", "06:00", "07:00",
      "08:00", "09:00", "10:00", "11:00", "12:00", "13:00", "14:00", "15:00",
      "16:00", "17:00", "18:00", "19:00", "20:00", "21:00", "22:00", "23:00">>

\* the array days of the source, indexed by getDay(): zhou-ri (Sunday),
\* zhou-yi (Monday), ... zhou-liu (Saturday)
DayLabels == <<"Sun", "Mon", "Tue", "Wed", "Thu", "Fri", "Sat">>

\* `${n}zhou`: the label of the n-th week of the month
WeekLabels == <<"W1", "W2", "W3", "W4", "W5">>

QuarterLabels == <<"Q1", "Q2", "Q3", "Q4">>

\* the lower bound of the chart's query
StartDate(period, t, z) ==
    CASE period = "day"   -> LocalMidnight(t, z)
      [] period = "week"  -> LocalMidnight(SetDateBack(t, 6, z), z)
      [] period = "month" -> FirstOfMonth(t, z)
      [] period = "year"  -> FirstOfYear(t, z)

\* the bucket key of a session completed at instant t
BucketKey(period, t, z) ==
    CASE period = "day"   -> HourLabels[GetHours(t, z) + 1]
      [] period = "week"  -> DayLabels[GetDay(t, z) + 1]
      [] period = "month" -> WeekLabels[CeilDiv(GetDate(t, z), 7)]
      [] period = "year"  -> QuarterLabels[(GetMonth(t, z) \div 3) + 1]

\* the query of both aggregations with every filter but the one on mode
SessionsSince_AnyMode(userId, since) ==
    {s \in focus_sessions : s.user_id = userId /\ s.completed_at >= since}

\* the query of both aggregations without the filter on the owner
SessionsSince_AnyOwner(userId, since) ==
    {s \in focus_sessions : s.mode = "work" /\ s.completed_at >= since}

\* from('focus_sessions').eq('user_id', userId).eq('mode', 'work')
\*     .gte('completed_at', since)
SessionsSince(userId, since) ==
    {s \in focus_sessions :
        s.user_id = userId /\ s.mode = "work" /\ s.completed_at >= since}

\* the orders in which the store can return the rows of a query that has no
\* order clause
RECURSIVE RowOrders(_)
RowOrders(S) ==
    IF S = {} THEN {<<>>}
    ELSE UNION {{<<s>> \o q : q \in RowOrders(S \ {s})} : s \in S}

\* sessions.reduce((sum, s) => sum + s.duration_minutes, 0)
RECURSIVE SumMinutes(_)
SumMinutes(S) ==
    IF S = {} THEN 0
    ELSE LET s == CHOOSE x \in S : TRUE IN s.duration_minutes + SumMinutes(S \ {s})

TodayStatsOf(sessions) ==
    [completedCount |-> Cardinality(sessions), totalMinutes |-> SumMinutes(sessions)]

\* MapAdd with the entry of the key replaced instead of added to
MapAdd_Overwrite(entries, key, minutes) ==
    IF \E j \in DOMAIN entries : entries[j].name = key
    THEN [j \in DOMAIN entries |->
            IF entries[j].name = key THEN [name |-> key, value |-> minutes] ELSE entries[j]]
    ELSE Append(entries, [name |-> key, value |-> minutes])

\* aggregated.set(key, (aggregated.get(key) ?? 0) + minutes) on a Map kept as
\* the sequence of its entries in insertion order
MapAdd(entries, key, minutes) ==
    IF \E j \in DOMAIN entries : entries[j].name = key
    THEN [j \in DOMAIN entries |->
            IF entries[j].name = key
            THEN [name |-> key, value |-> entries[j].value + minutes]
            ELSE entries[j]]
    ELSE Append(entries, [name |-> key, value |-> minutes])

\* sessions.forEach(...) from the i-th row on
RECURSIVE Aggregate(_, _, _, _, _)
Aggregate(sessions, i, entries, period, z) ==
    IF i > Len(sessions) THEN entries
    ELSE Aggregate(sessions, i + 1,
                   MapAdd(entries, BucketKey(period, sessions[i].completed_at, z),
                          sessions[i].duration_minutes),
                   period, z)

\* Array.from(aggregated.entries()).map(...): the points in the order of the
\* Map's entries
ChartOf(sessions, period, z) == Aggregate(sessions, 1, <<>>, period, z)

\* gen_random_uuid(): an id no row has
FreshSessionId == 100 + Cardinality({s \in focus_sessions : s.id > 100}) + 1

recordFocusSession(userId, durationMinutes, mode, insertFails) ==
    /\ Cardinality(focus_sessions) < MaxSessions
    /\ IF insertFails
       THEN /\ ret' = Call("recordFocusSession", userId, mode, {"focus_sessions"}, "error", <<>>)
            /\ UNCHANGED focus_sessions
       ELSE LET row == [id |-> FreshSessionId, user_id |-> userId,
                        duration_minutes |-> durationMinutes, mode |-> mode,
                        completed_at |-> now]
            IN  /\ focus_sessions' = focus_sessions \cup {row}
                /\ ret' = Call("recordFocusSession", userId, mode, {}, "ok", row)
    /\ UNCHANGED <<now, tz, tasks, habit_logs, timer, auth, app, profiles>>

getTodayFocusStats(userId, queryFails) ==
    /\ ret' = IF queryFails
              THEN Call("getTodayFocusStats", userId, 0, {"focus_sessions"}, "error", <<>>)
              ELSE Call("getTodayFocusStats", userId, 0, {}, "ok",
                        TodayStatsOf(SessionsSince(userId, LocalMidnight(now, tz))))
    /\ UNCHANGED <<now, tz, tasks, habit_logs, others>>

getFocusChartData(userId, period, queryFails) ==
    /\ IF queryFails
       THEN ret' = Call("getFocusChartData", userId, period, {"focus_sessions"}, "error", <<>>)
       ELSE \E data \in RowOrders(SessionsSince(userId, StartDate(period, now, tz))) :
               ret' = Call("getFocusChartData", userId, period, {}, "ok",
                           ChartOf(data, period, tz))
    /\ UNCHANGED <<now, tz, tasks, habit_logs, others>>

-----------------------------------------------------------------------------
(* Statistics page: the chart it shows *)

\* the names of getDefaultChartData's points (zhou-yi ... zhou-ri, 1zhou ...
\* 4zhou in the source)
DefaultLabels(period) ==
    CASE period = "day"   -> <<"00:00", "06:00", "12:00", "18:00", "23:59">>
      [] period = "week"  -> <<"Mon", "Tue", "Wed", "Thu", "Fri", "Sat", "Sun">>
      [] period = "month" -> <<"W1", "W2", "W3", "W4">>
      [] period = "year"  -> <<"Q1", "Q2", "Q3", "Q4">>

\* labels.map((n) => ({ name: n, value: 0 }))
ZeroPoints(labels) == [k \in DOMAIN labels |-> [name |-> labels[k], value |-> 0]]

getDefaultChartData(period) == ZeroPoints(DefaultLabels(period))

\* data.length > 0 ? data : getDefaultChartData(activePeriod)
ChartShown(data, period) == IF Len(data) > 0 THEN data ELSE getDefaultChartData(period)

\* the effect that runs when the period is switched: the chart is fetched and
\* set; a failed fetch is logged and sets nothing
StatisticsLoadChart(userId, period, queryFails) ==
    /\ IF queryFails
       THEN ret' = Call("StatisticsLoadChart", userId, period, {"focus_sessions"}, "error", <<>>)
       ELSE \E data \in RowOrders(SessionsSince(userId, StartDate(period, now, tz))) :
               ret' = Call("StatisticsLoadChart", userId, period, {}, "ok",
                           ChartShown(ChartOf(data, period, tz), period))
    /\ UNCHANGED <<now, tz, tasks, habit_logs, others>>

-----------------------------------------------------------------------------
(* SpecFocus: the focus service on every small table of sessions *)

\* 2024-04-10, a Wednesday, a day of the calls
FocusDay == 100

\* 2024-04-30, a Tuesday, the other day of the calls
MonthEnd == 120

\* the sessions a drawn table is made of
FocusRows ==
    LET Row(id, u, m, d, t) ==
            [id |-> id, user_id |-> u, duration_minutes |-> d, mode |-> m, completed_at |-> t]
    IN  { Row(1, "u1", "work", 25, 2),
          Row(2, "u1", "work", 25, 90 * MsPerDay + 23),
          Row(3, "u1", "work", 50, (FocusDay - 6) * MsPerDay + 12),
          Row(4, "u1", "work", 25, FocusDay * MsPerDay + 9),
          Row(5, "u1", "work", 25, FocusDay * MsPerDay + 9),
          Row(6, "u1", "work", 25, FocusDay * MsPerDay + 14),
          Row(7, "u1", "work", 25, FocusDay * MsPerDay + 20),
          Row(8, "u1", "break", 5, FocusDay * MsPerDay + 15),
          Row(9, "u2", "work", 25, FocusDay * MsPerDay + 9),
          Row(10, "u1", "work", 25, (MonthEnd - 1) * MsPerDay + 12) }

InitFocus ==
    /\ now \in {FocusDay * MsPerDay + 21, MonthEnd * MsPerDay + 21}
    /\ tz \in TimeZones
    /\ tasks = {}
    /\ habit_logs = {}
    /\ ret = NoCall
    /\ focus_sessions \in {S \in SUBSET FocusRows : Cardinality(S) <= MaxSessions}
    \* completed_at is the clock at the insert: no session lies ahead
    /\ \A s \in focus_sessions : s.completed_at <= now
    /\ timer = TimerUnmounted
    /\ auth = AuthUnmounted
    /\ app = AppUnmounted
    /\ user_profiles = {}
    /\ profile_calls = <<>>

\* the caller has read the result of its call
TakeResult ==
    /\ ret # NoCall
    /\ ret' = NoCall
    /\ UNCHANGED <<now, tz, tasks, habit_logs, others>>

\* one call at a time: a call is made once the result of the one before it
\* has been read
FocusCall ==
    \/ \E m \in {"work", "break"}, f \in BOOLEAN :
          recordFocusSession("u1", IF m = "work" THEN 25 ELSE 5, m, f)
    \/ \E u \in Users, f \in BOOLEAN : getTodayFocusStats(u, f)
    \/ \E u \in Users, p \in Periods, f \in BOOLEAN : getFocusChartData(u, p, f)
    \/ \E u \in Users, p \in Periods, f \in BOOLEAN : StatisticsLoadChart(u, p, f)

NextFocus ==
    \/ TakeResult
    \/ ret = NoCall /\ FocusCall

SpecFocus == InitFocus /\ [][NextFocus]_vars

-----------------------------------------------------------------------------
(* SpecOwner: one owner's aggregations while the other owners write *)

\* the completion events a drawn log is made of: one habit for each owner,
\* done yesterday and today
OwnerLogs ==
    {[user_id |-> u, task_id |-> IF u = "u1" THEN 1 ELSE 2, completed_date |-> d] :
        u \in Users, d \in {FocusDay - 1, FocusDay}}

\* the sessions a drawn table is made of: for each owner a work session
\* this morning and a break after it
OwnerSessions ==
    {[id |-> IF u = "u1" THEN k ELSE k + 2, user_id |-> u,
      duration_minutes |-> IF k = 1 THEN 25 ELSE 5,
      mode |-> IF k = 1 THEN "work" ELSE "break",
      completed_at |-> FocusDay * MsPerDay + 8 + k] : u \in Users, k \in 1..2}

\* the rows of a table that belong to an owner
Own(rows, userId) == {r \in rows : r.user_id = userId}

InitOwner ==
    /\ now = FocusDay * MsPerDay + 21
    /\ tz \in TimeZones
    /\ habit_logs \in SUBSET OwnerLogs
    /\ tasks = TasksFor(habit_logs)
    /\ ret = NoCall
    /\ focus_sessions \in SUBSET OwnerSessions
    /\ timer = TimerUnmounted
    /\ auth = AuthUnmounted
    /\ app = AppUnmounted
    /\ user_profiles = {}
    /\ profile_calls = <<>>

\* while an owner holds the result of a call, the other owners' requests
\* (row level security lets each write rows of its own only) change their
\* completion events, tasks and sessions
OtherOwnersWrite ==
    /\ ret # NoCall
    /\ \E logs \in SUBSET OwnerLogs, sessions \in SUBSET OwnerSessions :
          /\ Own(logs, ret.user) = Own(habit_logs, ret.user)
          /\ Own(sessions, ret.user) = Own(focus_sessions, ret.user)
          /\ habit_logs' = logs
          /\ tasks' = Own(tasks, ret.user) \cup TasksFor(logs \ Own(logs, ret.user))
          /\ focus_sessions' = sessions
    /\ <<habit_logs', focus_sessions'>> # <<habit_logs, focus_sessions>>
    /\ UNCHANGED <<now, tz, ret, timer, auth, app, profiles>>

OwnerCall ==
    \/ \E u \in Users, days \in 0..1, f \in BOOLEAN : getHabitHeatmap(u, days, f)
    \/ \E u \in Users, f \in BOOLEAN : getStreakData(u, f)
    \/ \E u \in Users, f \in BOOLEAN, g \in BOOLEAN : getMonthlyStats(u, f, g)
    \/ \E u \in Users, f \in BOOLEAN : getTodayFocusStats(u, f)
    \/ \E u \in Users, p \in Periods, f \in BOOLEAN : getFocusChartData(u, p, f)

NextOwner ==
    \/ TakeResult
    \/ OtherOwnersWrite
    \/ ret = NoCall /\ OwnerCall

SpecOwner == InitOwner /\ [][NextOwner]_vars

-----------------------------------------------------------------------------
(* Ownership claims (SpecOwner) *)

\* the values the call `op` of owner userId with argument arg can return on
\* the store as it is now
ResultsNow(op, userId, arg, failed) ==
    CASE op = "getHabitHeatmap" ->
            {HeatmapCells(LogsSince(userId, CellDate(now, arg, tz)), arg, now, tz)}
      [] op = "getStreakData" -> {StreakOf(RowsDesc(LogsOf(userId)), now)}
      [] op = "getMonthlyStats" ->
            {MonthlyOf(Cardinality(LogsSince(userId, ISODate(FirstOfMonth(now, tz)))),
                       TaskCount(userId, "tasks" \in failed), GetDate(now, tz))}
      [] op = "getTodayFocusStats" ->
            {TodayStatsOf(SessionsSince(userId, LocalMidnight(now, tz)))}
      [] op = "getFocusChartData" ->
            {ChartOf(d, arg, tz) : d \in RowOrders(SessionsSince(userId, StartDate(arg, now, tz)))}

\* C11: the result an owner holds from any of the five aggregations is still
\* a result of the same call after the other owners' completion events, tasks
\* and focus sessions changed arbitrarily: it depends on the owner's rows only.
C11_OwnRowsOnly ==
    (ret.op \in AggregationCalls /\ ret.status = "ok") =>
        ret.value \in ResultsNow(ret.op, ret.user, ret.arg, ret.failed)

\* an owner holds a chart with a point in it while another owner has
\* completion events, tasks and a work session of the same morning
C11_Witness ==
    /\ ret.op = "getFocusChartData" /\ ret.status = "ok" /\ ret.user = "u1"
    /\ ret.value # <<>>
    /\ \E s \in focus_sessions : s.user_id = "u2" /\ s.mode = "work"
    /\ \E l \in habit_logs : l.user_id = "u2"
    /\ \E t \in tasks : t.user_id = "u2"

-----------------------------------------------------------------------------
(* Focus statistics claims (SpecFocus) *)

TodayStatsReturned == ret.op = "getTodayFocusStats" /\ ret.status = "ok"

ChartReturned == ret.op = "getFocusChartData" /\ ret.status = "ok"

\* the store with all break sessions removed
WithoutBreaks == {s \in focus_sessions : s.mode # "break"}

\* the sessions of an owner at or after an instant, of a table
OwnSince(table, userId, since) ==
    {s \in table : s.user_id = userId /\ s.completed_at >= since}

\* C12: getTodayFocusStats and getFocusChartData return what they return on
\* the store from which every break session has been removed.
C12_BreaksDoNotCount ==
    /\ TodayStatsReturned =>
          ret.value = TodayStatsOf(OwnSince(WithoutBreaks, ret.user, LocalMidnight(now, tz)))
    /\ ChartReturned =>
          \E d \in RowOrders(OwnSince(WithoutBreaks, ret.user, StartDate(ret.arg, now, tz))) :
              ret.value = ChartOf(d, ret.arg, tz)

\* today's statistics of an owner who has work sessions today, and has
\* recorded a break today
C12_Witness ==
    /\ TodayStatsReturned /\ ret.user = "u1" /\ ret.value.completedCount >= 2
    /\ \E s \in focus_sessions :
          /\ s.user_id = "u1" /\ s.mode = "break" /\ s.completed_at = now

\* the sum of the values of a sequence of chart points
RECURSIVE SumValues(_)
SumValues(points) ==
    IF points = <<>> THEN 0 ELSE Head(points).value + SumValues(Tail(points))

\* C13: for each period, every work session at or after the period's lower
\* bound falls in exactly one emitted bucket (hour of day, weekday,
\* ceil(dayOfMonth / 7), quarter); the value of each emitted bucket is the sum
\* of the durations of the sessions falling in it; no empty bucket is emitted;
\* the values add up to the total duration of the filtered sessions.
C13_BucketSums ==
    ChartReturned =>
        LET S        == SessionsSince(ret.user, StartDate(ret.arg, now, tz))
            v        == ret.value
            In(name) == {s \in S : BucketKey(ret.arg, s.completed_at, tz) = name}
        IN  /\ \A i, j \in DOMAIN v : v[i].name = v[j].name => i = j
            /\ \A s \in S : \E i \in DOMAIN v : s \in In(v[i].name)
            /\ \A i \in DOMAIN v :
                  In(v[i].name) # {} /\ v[i].value = SumMinutes(In(v[i].name))
            /\ SumValues(v) = SumMinutes(S)

\* the scenario of the specification: four work sessions of 25 minutes at
\* hours 9, 9, 14 and 20 of today, period day
C13_Witness ==
    /\ ChartReturned /\ ret.arg = "day" /\ ret.user = "u1" /\ tz = "UTC"
    /\ {s.completed_at - FocusDay * MsPerDay : s \in SessionsSince("u1", FocusDay * MsPerDay)}
          = {9, 14, 20}
    /\ Cardinality(SessionsSince("u1", FocusDay * MsPerDay)) = 4
    /\ {ret.value[i] : i \in DOMAIN ret.value} =
          {[name |-> "09:00", value |-> 50], [name |-> "14:00", value |-> 25],
           [name |-> "20:00", value |-> 25]}

\* the labels of a period in their natural order: hours ascending, Monday to
\* Sunday, week 1 upward, Q1 to Q4
NaturalOrder(period) ==
    CASE period = "day"   -> HourLabels
      [] period = "week"  -> <<"Mon", "Tue", "Wed", "Thu", "Fri", "Sat", "Sun">>
      [] period = "month" -> WeekLabels
      [] period = "year"  -> QuarterLabels

\* the place of a label in the natural order of its period
NaturalRank(period, name) ==
    CHOOSE k \in DOMAIN NaturalOrder(period) : NaturalOrder(period)[k] = name

\* C14: the points of getFocusChartData follow the natural order of the
\* period's labels, whatever the order in which the store returned the rows.
C14_NaturalOrder ==
    ChartReturned =>
        \A i, j \in DOMAIN ret.value :
            i < j => NaturalRank(ret.arg, ret.value[i].name)
                        < NaturalRank(ret.arg, ret.value[j].name)

\* the canonical bucket labels of a period in natural order: the 24 hours,
\* the 7 weekdays from Monday, every week of the month, the 4 quarters
CanonicalLabels(period) == NaturalOrder(period)

\* the Statistics page has just set its chart, for an owner without a work
\* session in the period
ChartSetOnEmpty ==
    /\ ret.op = "StatisticsLoadChart" /\ ret.status = "ok"
    /\ SessionsSince(ret.user, StartDate(ret.arg, now, tz)) = {}

\* C15: when the aggregation is empty the Statistics page shows exactly one
\* zero-valued point for every canonical bucket label of the period, in
\* natural order.
C15_TemplateIsCanonical ==
    ChartSetOnEmpty => ret.value = ZeroPoints(CanonicalLabels(ret.arg))

-----------------------------------------------------------------------------
(* Completion event claims (Spec) *)

\* the events of habit_logs for one owner, task and date
EventsFor(userId, id, d) ==
    {l \in habit_logs : l.user_id = userId /\ l.task_id = id /\ l.completed_date = d}

\* toggleTask(id, user, completed = true) has just returned the task
ToggledOn == ret.op = "toggleTask" /\ ret.status = "ok" /\ ret.value.completed

\* C16: habit_logs never holds two events of one owner, task and date, and a
\* toggleTask(id, user, true) that returned the task, the first of the day or
\* a repeated one, leaves exactly one event for (user, id, today).
C16_OneEventPerToggle ==
    /\ \A l1, l2 \in habit_logs :
          (/\ l1.user_id = l2.user_id /\ l1.task_id = l2.task_id
           /\ l1.completed_date = l2.completed_date) => l1 = l2
    /\ ToggledOn => Cardinality(EventsFor(ret.user, ret.arg, Today)) = 1

-----------------------------------------------------------------------------
(* AppContent: the task list, its localStorage cache and the optimistic     *)
(* updates toggleTask, addTask, deleteTask                                  *)

\* tasks AppContent adds in one run (SpecApp)
MaxCreated == 2
\* requests of AppContent in flight at one time (SpecApp)
MaxPending == 2
\* handlers of AppContent called in one run (SpecApp)
MaxOps == 3

\* session?.user ?? null when there is no session
NoUser == ""

\* the signed-in user of the browser
AppUser == "u1"

\* a task of the list: of the fields of Task, its id and its completed flag
Item(id, completed) == [id |-> id, completed |-> completed]

\* tasks.find((t) => t.id === id) finds a task
Listed(list, id) == \E k \in DOMAIN list : list[k].id = id

\* tasks.find((t) => t.id === id)
Find(list, id) == list[CHOOSE k \in DOMAIN list :
                          list[k].id = id /\ \A j \in 1..(k - 1) : list[j].id # id]

\* tasks.map((t) => (t.id === id ? { ...t, completed: newCompleted } : t))
SetCompleted(list, id, newCompleted) ==
    [k \in DOMAIN list |->
        IF list[k].id = id THEN Item(id, newCompleted) ELSE list[k]]

\* tasks.filter((t) => t.id !== id)
Without(list, id) == SelectSeq(list, LAMBDA t : t.id # id)

\* prev.map((t) => (t.id === tempId ? { ...t, id: created.id } : t))
WithServerId(list, tempId, createdId) ==
    [k \in DOMAIN list |->
        IF list[k].id = tempId THEN Item(createdId, list[k].completed) ELSE list[k]]

\* [taskToDelete, ...without]
Restored(before, without, taskToDelete) == <<taskToDelete>> \o without

\* Date.now().toString(): the id NewTask gives the task it hands to addTask
TempId == 0 - (app.created + 1)

\* setTasks(list) and localStorage.setItem(getTaskCacheKey(user.id), list),
\* user being the user of the handler's closure
ShownFor(a, userId, list) ==
    [a EXCEPT !.tasks = list, !.cache[userId] = list, !.stored[userId] = "list"]

\* the same at the start of a handler: its closure has the current user
Shown(a, list) == ShownFor(a, a.user, list)

\* a handler starts while the requests of others are in flight
Overlapped(pending) == {[q EXCEPT !.overlap = TRUE] : q \in pending}

\* a handler has made its optimistic change and issued its request
Issued(a, list, kind, id, arg) ==
    [Shown(a, list) EXCEPT
        !.pending = Overlapped(a.pending) \cup
                    {[kind |-> kind, id |-> id, arg |-> arg, before |-> a.tasks,
                      overlap |-> a.pending # {}, user |-> a.user]},
        !.ops = @ + 1]

\* what a handler that ended leaves for the checks: the list it started
\* from and whether it ran without another handler's request in flight
Ended(q, failed, status, createdId) ==
    Call(q.kind, q.user, q.id, failed, status,
         [before |-> q.before, arg |-> q.arg, alone |-> ~q.overlap, created |-> createdId])

AppToggleTask(id) ==
    /\ app.mounted /\ Cardinality(app.pending) < MaxPending /\ app.ops < MaxOps
    /\ app.user # NoUser
    /\ Listed(app.tasks, id)
    /\ LET newCompleted == ~Find(app.tasks, id).completed
       IN  app' = Issued(app, SetCompleted(app.tasks, id, newCompleted),
                         "AppContent.toggleTask", id, newCompleted)
    /\ ret' = NoCall
    /\ UNCHANGED <<now, tz, tasks, habit_logs, focus_sessions, timer, auth, profiles>>

AppAddTask ==
    /\ app.mounted /\ Cardinality(app.pending) < MaxPending /\ app.ops < MaxOps
    /\ app.user # NoUser
    /\ app.created < MaxCreated
    /\ app' = [Issued(app, <<Item(TempId, FALSE)>> \o app.tasks,
                      "AppContent.addTask", TempId, FALSE)
                  EXCEPT !.created = @ + 1]
    /\ ret' = NoCall
    /\ UNCHANGED <<now, tz, tasks, habit_logs, focus_sessions, timer, auth, profiles>>

AppDeleteTask(id) ==
    /\ app.mounted /\ Cardinality(app.pending) < MaxPending /\ app.ops < MaxOps
    /\ app.user # NoUser
    /\ Listed(app.tasks, id)
    /\ app' = Issued(app, Without(app.tasks, id), "AppContent.deleteTask", id, FALSE)
    /\ ret' = NoCall
    /\ UNCHANGED <<now, tz, tasks, habit_logs, focus_sessions, timer, auth, profiles>>

\* the request of toggleTask is answered: toggleTaskService runs on the store
\* and the handler goes on after its await
ToggleAnswered(q, updateFails, upsertFails) ==
    LET rest == [app EXCEPT !.pending = @ \ {q}]
    IN  IF updateFails \/ TaskRows(q.id, q.user) = {}
        THEN /\ app' = ShownFor(rest, q.user, q.before)
             /\ ret' = Ended(q, {"tasks"}, "error", 0)
             /\ UNCHANGED <<tasks, habit_logs>>
        ELSE /\ tasks' = (tasks \ TaskRows(q.id, q.user)) \cup
                         {[id |-> q.id, user_id |-> q.user, completed |-> q.arg]}
             /\ habit_logs' = LogsAfterToggle(q.id, q.user, q.arg, upsertFails)
             /\ app' = rest
             /\ ret' = Ended(q, IF q.arg /\ upsertFails THEN {"habit_logs"} ELSE {}, "ok", 0)

\* the request of addTask is answered
AddAnswered(q, insertFails) ==
    LET rest == [app EXCEPT !.pending = @ \ {q}]
        \* the id the tasks table gives the created row
        id   == MaxTasks - q.id
    IN  IF insertFails
        THEN /\ app' = ShownFor(rest, q.user, Without(q.before, q.id))
             /\ ret' = Ended(q, {"tasks"}, "error", 0)
             /\ UNCHANGED <<tasks, habit_logs>>
        ELSE /\ tasks' = tasks \cup {[id |-> id, user_id |-> q.user, completed |-> FALSE]}
             /\ app' = ShownFor(rest, q.user, WithServerId(app.tasks, q.id, id))
             /\ ret' = Ended(q, {}, "ok", id)
             /\ UNCHANGED habit_logs

\* the request of deleteTask is answered
DeleteAnswered(q, deleteFails) ==
    LET rest == [app EXCEPT !.pending = @ \ {q}]
    IN  IF deleteFails
        THEN /\ app' = IF Listed(q.before, q.id)
                       THEN ShownFor(rest, q.user,
                                     Restored(q.before, Without(q.before, q.id),
                                              Find(q.before, q.id)))
                       ELSE rest
             /\ ret' = Ended(q, {"tasks"}, "error", 0)
             /\ UNCHANGED <<tasks, habit_logs>>
        ELSE /\ tasks' = tasks \ TaskRows(q.id, q.user)
             /\ habit_logs' = IF TaskRows(q.id, q.user) = {} THEN habit_logs
                              ELSE {l \in habit_logs : l.task_id # q.id}
             /\ app' = rest
             /\ ret' = Ended(q, {}, "ok", 0)

AppAnswered ==
    /\ app.mounted
    /\ \E q \in {h \in app.pending : h.kind # "getTodayTasks"}, f \in BOOLEAN, g \in BOOLEAN :
          CASE q.kind = "AppContent.toggleTask" -> ToggleAnswered(q, f, g)
            [] q.kind = "AppContent.addTask"    -> ~g /\ AddAnswered(q, f)
            [] q.kind = "AppContent.deleteTask" -> ~g /\ DeleteAnswered(q, f)
    /\ UNCHANGED <<now, tz, focus_sessions, timer, auth, profiles>>

-----------------------------------------------------------------------------
(* SpecApp: AppContent after its first synchronisation with the store *)

\* getTodayTasks: the rows of a user's tasks, .order('created_at', {ascending:
\* false}); ids are given in the order of creation
RECURSIVE TodayTasks(_)
TodayTasks(rows) ==
    IF rows = {} THEN <<>>
    ELSE LET latest == CHOOSE t \in rows : \A r \in rows : r.id <= t.id
         IN  <<latest>> \o TodayTasks(rows \ {latest})

\* rows.map(rowToTask)
ListOf(rows) == [k \in DOMAIN rows |-> Item(rows[k].id, rows[k].completed)]

InitApp ==
    /\ now = FirstDay * MsPerDay + 2
    /\ tz = "UTC"
    /\ \E done \in [TaskIds -> BOOLEAN] :
          tasks = {[id |-> id, user_id |-> AppUser, completed |-> done[id]] : id \in TaskIds}
    /\ habit_logs = {}
    /\ ret = NoCall
    /\ focus_sessions = {}
    /\ timer = TimerUnmounted
    /\ auth = AuthUnmounted
    /\ user_profiles = {}
    /\ profile_calls = <<>>
    /\ LET rows == TodayTasks(tasks)
       IN app = [mounted |-> TRUE, user |-> AppUser, tasks |-> ListOf(rows),
                 cache |-> [u \in Users |-> IF u = AppUser THEN ListOf(rows) ELSE <<>>],
                 stored |-> [u \in Users |-> IF u = AppUser THEN "list" ELSE "none"],
                 hasSynced |-> TRUE, pending |-> {}, created |-> 0, ops |-> 0,
                 switches |-> 0]

NextApp ==
    \/ \E id \in (0 - MaxCreated)..(MaxTasks + MaxCreated) : AppToggleTask(id)
    \/ AppAddTask
    \/ \E id \in (0 - MaxCreated)..(MaxTasks + MaxCreated) : AppDeleteTask(id)
    \/ AppAnswered

SpecApp == InitApp /\ [][NextApp]_vars

-----------------------------------------------------------------------------
(* Optimistic update claims (SpecApp) *)

\* a handler of AppContent has ended, and no other handler's request was in
\* flight while it ran
EndedAlone(kind) == ret.op = kind /\ ret.value.alone

\* C17: while the request of a create, delete or toggle is in flight the list
\* and its cache show the change; when the request fails both are back to
\* exactly the list before the operation (same tasks, order and flags); when
\* it succeeds the change stays, a created task in its place under the id
\* the server gave it.
C17_RollbackRestoresList ==
    /\ \A q \in app.pending : ~q.overlap =>
          /\ app.cache[app.user] = app.tasks
          /\ app.tasks =
                CASE q.kind = "AppContent.toggleTask" -> SetCompleted(q.before, q.id, q.arg)
                  [] q.kind = "AppContent.addTask"    -> <<Item(q.id, FALSE)>> \o q.before
                  [] q.kind = "AppContent.deleteTask" -> Without(q.before, q.id)
    /\ \A kind \in {"AppContent.toggleTask", "AppContent.addTask", "AppContent.deleteTask"} :
          (EndedAlone(kind) /\ ret.status = "error") =>
              app.tasks = ret.value.before /\ app.cache[app.user] = ret.value.before
    /\ (EndedAlone("AppContent.toggleTask") /\ ret.status = "ok") =>
          /\ app.tasks = SetCompleted(ret.value.before, ret.arg, ret.value.arg)
          /\ app.cache[app.user] = app.tasks
    /\ (EndedAlone("AppContent.addTask") /\ ret.status = "ok") =>
          /\ app.tasks = <<Item(ret.value.created, FALSE)>> \o ret.value.before
          /\ app.cache[app.user] = app.tasks
    /\ (EndedAlone("AppContent.deleteTask") /\ ret.status = "ok") =>
          /\ app.tasks = Without(ret.value.before, ret.arg)
          /\ app.cache[app.user] = app.tasks

\* the same without the failed deletions
C17_ExceptFailedDelete ==
    (EndedAlone("AppContent.deleteTask") /\ ret.status = "error") \/ C17_RollbackRestoresList

-----------------------------------------------------------------------------
(* Focus page: the countdown timer                                          *)
(*                                                                          *)
(* The record timer holds the state of the component as of its latest       *)
(* render, the dependency values its effects last ran with, whether the     *)
(* one-second interval is set, and the requests handleComplete has issued.  *)
(* An event handler or interval callback runs on a rendered component; the  *)
(* step Render is a render whose effects have something to do.              *)

\* countdowns that reach zero in one run (SpecTimer)
MaxRounds == 2

\* seconds in a minute: (mode === 'work' ? workMinutes : breakMinutes) * 60
SecondsPerMinute == 60

\* addXp(user.id, 40)
FocusXp == 40

\* useState(25), useState(5)
DefaultWorkMinutes == 25
DefaultBreakMinutes == 5

\* the values the sliders of the settings panel are moved to
WorkChoices == {1, DefaultWorkMinutes}
BreakChoices == {1, DefaultBreakMinutes}

OtherMode(mode) == IF mode = "work" THEN "break" ELSE "work"

\* the dependency arrays of the two timer effects
SyncDeps(t) == <<t.mode, t.workMinutes, t.breakMinutes, t.isActive>>
TimerDeps(t) == <<t.isActive, t.timeLeft>>

\* the latest render left no effect to run
Settled(t) == t.syncDeps = SyncDeps(t) /\ t.timerDeps = TimerDeps(t)

\* the mark kept of the moment a countdown reached zero
NoZero == [at |-> FALSE, mode |-> "work", completedToday |-> 0, minutesToday |-> 0,
           recorded |-> 0, xp |-> 0]

\* the component after its first render and the effects of mounting: the
\* initial state of the useState calls, today's statistics loaded
Mounted(stats) ==
    LET t == [mounted |-> TRUE,
              workMinutes |-> DefaultWorkMinutes, breakMinutes |-> DefaultBreakMinutes,
              totalTime |-> DefaultWorkMinutes * SecondsPerMinute,
              timeLeft |-> DefaultWorkMinutes * SecondsPerMinute,
              isActive |-> FALSE, mode |-> "work",
              completedToday |-> stats.completedCount, minutesToday |-> stats.totalMinutes,
              ticking |-> FALSE, recorded |-> 0, xp |-> 0, rounds |-> 0, zero |-> NoZero,
              syncDeps |-> <<>>, timerDeps |-> <<>>]
    IN  [t EXCEPT !.syncDeps = SyncDeps(t), !.timerDeps = TimerDeps(t)]

\* the Focus page is opened; when the statistics cannot be loaded the
\* fallback reads the zeros the mounting itself wrote to localStorage
FocusMount(queryFails) ==
    /\ ~timer.mounted
    /\ timer' = Mounted(IF queryFails THEN [completedCount |-> 0, totalMinutes |-> 0]
                        ELSE TodayStatsOf(SessionsSince(AppUser, LocalMidnight(now, tz))))
    /\ ret' = NoCall
    /\ UNCHANGED <<now, tz, tasks, habit_logs, focus_sessions, auth, app, profiles>>

\* a user event: the mark of the last countdown is dropped
ByUser(t) == [t EXCEPT !.zero = NoZero]

\* toggleTimer: setIsActive(!isActive)
ToggleTimer ==
    /\ timer.mounted /\ Settled(timer)
    /\ timer' = ByUser([timer EXCEPT !.isActive = ~@])
    /\ ret' = NoCall
    /\ UNCHANGED <<now, tz, tasks, habit_logs, focus_sessions, auth, app, profiles>>

\* resetTimer: setIsActive(false); setTimeLeft(totalTime)
ResetTimer ==
    /\ timer.mounted /\ Settled(timer)
    /\ timer' = ByUser([timer EXCEPT !.isActive = FALSE, !.timeLeft = timer.totalTime])
    /\ ret' = NoCall
    /\ UNCHANGED <<now, tz, tasks, habit_logs, focus_sessions, auth, app, profiles>>

\* toggleMode: setMode(nextMode); setIsActive(false)
toggleMode(t, closure) == [t EXCEPT !.mode = OtherMode(closure.mode), !.isActive = FALSE]

\* the mode button
ToggleModeClicked ==
    /\ timer.mounted /\ Settled(timer)
    /\ timer' = ByUser(toggleMode(timer, timer))
    /\ ret' = NoCall
    /\ UNCHANGED <<now, tz, tasks, habit_logs, focus_sessions, auth, app, profiles>>

\* the sliders: setWorkMinutes, setBreakMinutes
SetMinutes(w, b) ==
    /\ timer.mounted /\ Settled(timer)
    /\ <<w, b>> # <<timer.workMinutes, timer.breakMinutes>>
    /\ w = timer.workMinutes \/ b = timer.breakMinutes
    /\ timer' = ByUser([timer EXCEPT !.workMinutes = w, !.breakMinutes = b])
    /\ ret' = NoCall
    /\ UNCHANGED <<now, tz, tasks, habit_logs, focus_sessions, auth, app, profiles>>

\* the interval fires: setTimeLeft((prev) => prev - 1)
IntervalTick ==
    /\ timer.mounted /\ Settled(timer) /\ timer.ticking
    /\ timer.rounds < MaxRounds
    /\ timer' = IF timer.timeLeft = 1
                THEN [timer EXCEPT !.timeLeft = 0, !.rounds = @ + 1,
                         !.zero = [at |-> TRUE, mode |-> timer.mode,
                                   completedToday |-> timer.completedToday,
                                   minutesToday |-> timer.minutesToday,
                                   recorded |-> timer.recorded, xp |-> timer.xp]]
                ELSE [timer EXCEPT !.timeLeft = @ - 1]
    /\ ret' = NoCall
    /\ UNCHANGED <<now, tz, tasks, habit_logs, focus_sessions, auth, app, profiles>>

\* the effect on [mode, workMinutes, breakMinutes, isActive], run in the
\* render closure: setTotalTime(newTotal); if (!isActive) setTimeLeft(newTotal)
SyncEffect(t, closure) ==
    LET newTotal == (IF closure.mode = "work" THEN closure.workMinutes
                     ELSE closure.breakMinutes) * SecondsPerMinute
    IN  IF closure.isActive THEN [t EXCEPT !.totalTime = newTotal]
        ELSE [t EXCEPT !.totalTime = newTotal, !.timeLeft = newTotal]

\* handleComplete up to its call of toggleMode: the counters of today rise
\* and the two requests are issued when the mode of the closure is work
Completed(t, closure) ==
    IF closure.mode = "work"
    THEN [t EXCEPT !.isActive = FALSE, !.ticking = FALSE,
                   !.completedToday = @ + 1, !.minutesToday = @ + closure.workMinutes,
                   !.recorded = @ + 1, !.xp = @ + FocusXp]
    ELSE [t EXCEPT !.isActive = FALSE, !.ticking = FALSE]

handleComplete(t, closure) == toggleMode(Completed(t, closure), closure)

\* the effect on [isActive, timeLeft], run in the render closure after the
\* cleanup of its previous run
TimerEffect(t, closure) ==
    IF closure.isActive /\ closure.timeLeft > 0 THEN [t EXCEPT !.ticking = TRUE]
    ELSE IF closure.timeLeft = 0 THEN handleComplete([t EXCEPT !.ticking = FALSE], closure)
    ELSE [t EXCEPT !.ticking = FALSE]

\* the effects of a render, in the order of their declaration, each one if
\* its dependencies changed; their state updates are applied together
Effects(t) ==
    LET afterSync  == IF t.syncDeps # SyncDeps(t) THEN SyncEffect(t, t) ELSE t
        afterTimer == IF t.timerDeps # TimerDeps(t) THEN TimerEffect(afterSync, t)
                      ELSE afterSync
    IN  [afterTimer EXCEPT !.syncDeps = SyncDeps(t), !.timerDeps = TimerDeps(t)]

\* handleComplete runs in this render, in work mode
CompletesWork(t) == t.timerDeps # TimerDeps(t) /\ ~(t.isActive /\ t.timeLeft > 0)
                    /\ t.timeLeft = 0 /\ t.mode = "work"

\* a render and its effects; the session handleComplete records is inserted
\* unless the request fails
Render(insertFails) ==
    /\ timer.mounted /\ ~Settled(timer)
    /\ timer' = Effects(timer)
    /\ IF CompletesWork(timer) /\ ~insertFails
       THEN focus_sessions' = focus_sessions \cup
               {[id |-> FreshSessionId, user_id |-> AppUser,
                 duration_minutes |-> timer.workMinutes, mode |-> "work", completed_at |-> now]}
       ELSE UNCHANGED focus_sessions
    /\ CompletesWork(timer) \/ ~insertFails
    /\ ret' = NoCall
    /\ UNCHANGED <<now, tz, tasks, habit_logs, auth, app, profiles>>

-----------------------------------------------------------------------------
(* SpecTimer: the Focus page of a signed-in user *)

InitTimer ==
    /\ now = FocusDay * MsPerDay + 21
    /\ tz \in {"UTC", "Asia/Shanghai"}
    /\ tasks = {}
    /\ habit_logs = {}
    /\ ret = NoCall
    /\ focus_sessions = {}
    /\ timer = TimerUnmounted
    /\ auth = AuthUnmounted
    /\ app = AppUnmounted
    /\ user_profiles = {}
    /\ profile_calls = <<>>

NextTimer ==
    \/ \E f \in BOOLEAN : FocusMount(f)
    \/ ToggleTimer
    \/ ResetTimer
    \/ ToggleModeClicked
    \/ \E w \in WorkChoices, b \in BreakChoices : SetMinutes(w, b)
    \/ IntervalTick
    \/ \E f \in BOOLEAN : Render(f)

SpecTimer == InitTimer /\ [][NextTimer]_vars

-----------------------------------------------------------------------------
(* Timer claims (SpecTimer) *)

\* a countdown has reached zero, the renders that followed have run all
\* their effects, and the user has not touched the page since
SettledAfterZero == timer.mounted /\ timer.zero.at /\ Settled(timer)

\* C18: once a work countdown has reached zero and the page has settled,
\* completedToday is up by 1, minutesToday by workMinutes, one session has
\* been recorded and one addXp(40) issued, and the timer is stopped in break
\* mode with timeLeft = breakMinutes x 60; once a break countdown has reached
\* zero nothing has been recorded and the timer is stopped in work mode with
\* timeLeft = workMinutes x 60.
C18_CompletionHandledOnce ==
    SettledAfterZero =>
        LET z == timer.zero
        IN  /\ ~timer.isActive /\ ~timer.ticking
            /\ z.mode = "work" =>
                  /\ timer.completedToday = z.completedToday + 1
                  /\ timer.minutesToday = z.minutesToday + timer.workMinutes
                  /\ timer.recorded = z.recorded + 1
                  /\ timer.xp = z.xp + FocusXp
                  /\ timer.mode = "break"
                  /\ timer.timeLeft = timer.breakMinutes * SecondsPerMinute
            /\ z.mode = "break" =>
                  /\ timer.completedToday = z.completedToday
                  /\ timer.minutesToday = z.minutesToday
                  /\ timer.recorded = z.recorded
                  /\ timer.xp = z.xp
                  /\ timer.mode = "work"
                  /\ timer.timeLeft = timer.workMinutes * SecondsPerMinute

\* what the page does settle in: the completion of the mode that ran, then a
\* second completion in the mode switched to
C18_SettlesAfterTwoCompletions ==
    SettledAfterZero =>
        LET z == timer.zero
        IN  /\ ~timer.isActive /\ ~timer.ticking
            /\ timer.completedToday = z.completedToday + 1
            /\ timer.minutesToday = z.minutesToday + timer.workMinutes
            /\ timer.recorded = z.recorded + 1
            /\ timer.xp = z.xp + FocusXp
            /\ timer.mode = z.mode
            /\ timer.timeLeft = (IF z.mode = "work" THEN timer.workMinutes
                                 ELSE timer.breakMinutes) * SecondsPerMinute

-----------------------------------------------------------------------------
(* AuthProvider: the session bootstrap and loadProfileWithRetry             *)
(*                                                                          *)
(* The record auth holds the state of the provider (user, profile,          *)
(* loading), its 15-second timeout, the getSession request, and one         *)
(* activation of loadProfileWithRetry for each of its three callers.        *)
(* A request to the backend is answered by a step of its own, or never.     *)

SESSION_TIMEOUT_MS == 15000

MAX_RETRY == 3

\* the state of profile before a profile is loaded: null
NoProfile == [user_id |-> NoUser]

\* the row getOrCreateProfile returns for a user
ProfileOf(userId) == [user_id |-> userId]

\* the callers of loadProfileWithRetry
Callers == {"getSession", "onAuthStateChange", "retryLoadProfile"}

\* loadProfileWithRetry not running
NoLoad == [pc |-> "idle", user |-> NoUser, attempt |-> 0, calls |-> 0, failures |-> 0,
           waits |-> <<>>, result |-> NoProfile]

\* loadProfileWithRetry entered: attempt = 1 and the first call of
\* getOrCreateProfile issued
Loading(userId) ==
    [pc |-> "calling", user |-> userId, attempt |-> 1, calls |-> 1, failures |-> 0,
     waits |-> <<>>, result |-> NoProfile]

\* the wait guard with the last attempt waited after as well
WaitsAfter_Always(attempt, maxRetry) == attempt <= maxRetry

\* if (attempt < maxRetry): a wait follows the failed attempt
WaitsAfter(attempt, maxRetry) == attempt < maxRetry

\* the loop condition attempt <= maxRetry
LoopGoesOn(attempt, maxRetry) == attempt <= maxRetry

\* the loop after attempt++: the next call, or the return of null
NextAttempt(l, maxRetry) ==
    IF LoopGoesOn(l.attempt + 1, maxRetry)
    THEN [l EXCEPT !.pc = "calling", !.attempt = @ + 1, !.calls = @ + 1]
    ELSE [l EXCEPT !.pc = "returned", !.attempt = @ + 1, !.result = NoProfile]

\* the await of getOrCreateProfile ends: return p, or the catch block
Answered(l, ok, maxRetry) ==
    IF ok THEN [l EXCEPT !.pc = "returned", !.result = ProfileOf(l.user)]
    ELSE LET failed == [l EXCEPT !.failures = @ + 1]
         IN  IF WaitsAfter(l.attempt, maxRetry)
             THEN [failed EXCEPT !.pc = "waiting", !.waits = Append(@, l.attempt * 1000)]
             ELSE NextAttempt(failed, maxRetry)

\* what the caller does with the value loadProfileWithRetry returned
Continued(a, caller, l) ==
    LET withProfile == IF l.result # NoProfile THEN [a EXCEPT !.profile = l.result] ELSE a
    IN  IF caller = "retryLoadProfile" THEN withProfile
        ELSE [withProfile EXCEPT !.loading = FALSE]

\* a step of loadProfileWithRetry that may have ended it
Stepped(a, caller, l) ==
    LET b == [a EXCEPT !.loads[caller] = l]
    IN  IF l.pc = "returned" THEN Continued(b, caller, l) ELSE b

AuthFrame == UNCHANGED <<now, tz, tasks, habit_logs, focus_sessions, timer, app, profiles>>

\* the provider mounts: initial state, the timeout set, getSession issued,
\* the listener subscribed
AuthMount ==
    /\ ~auth.mounted
    /\ auth' = [mounted |-> TRUE, user |-> NoUser, profile |-> NoProfile, loading |-> TRUE,
                timeout |-> [status |-> "set", ms |-> SESSION_TIMEOUT_MS],
                session |-> "pending", loads |-> [c \in Callers |-> NoLoad]]
    /\ ret' = NoCall
    /\ AuthFrame

\* the timeout fires after SESSION_TIMEOUT_MS
TimeoutFires ==
    /\ auth.mounted /\ auth.timeout.status = "set"
    /\ auth' = [auth EXCEPT !.timeout.status = "fired", !.loading = FALSE]
    /\ ret' = NoCall
    /\ AuthFrame

\* getSession answers with a session of a user or with none: the then block
\* up to its await
SessionResolved(userId) ==
    /\ auth.mounted /\ auth.session = "pending"
    /\ LET cleared == [auth EXCEPT !.timeout.status = IF @ = "set" THEN "cleared" ELSE @,
                                   !.user = userId, !.session = "resolved"]
       IN  auth' = IF userId # NoUser
                   THEN [cleared EXCEPT !.loads["getSession"] = Loading(userId)]
                   ELSE [cleared EXCEPT !.loading = FALSE]
    /\ ret' = NoCall
    /\ AuthFrame

\* getSession fails: the catch block
SessionRejected ==
    /\ auth.mounted /\ auth.session = "pending"
    /\ auth' = [auth EXCEPT !.timeout.status = IF @ = "set" THEN "cleared" ELSE @,
                            !.session = "rejected", !.loading = FALSE]
    /\ ret' = NoCall
    /\ AuthFrame

\* the listener is called with a session of a user or with none
AuthStateChange(userId) ==
    /\ auth.mounted /\ auth.loads["onAuthStateChange"].pc \in {"idle", "returned"}
    /\ auth' = IF userId # NoUser
               THEN [auth EXCEPT !.user = userId,
                                 !.loads["onAuthStateChange"] = Loading(userId)]
               ELSE [auth EXCEPT !.user = NoUser, !.profile = NoProfile, !.loading = FALSE,
                                 !.loads["onAuthStateChange"] = NoLoad]
    /\ ret' = NoCall
    /\ AuthFrame

\* the retry button: retryLoadProfile
RetryLoadProfile ==
    /\ auth.mounted /\ auth.user # NoUser
    /\ auth.loads["retryLoadProfile"].pc \in {"idle", "returned"}
    /\ auth' = [auth EXCEPT !.loads["retryLoadProfile"] = Loading(auth.user)]
    /\ ret' = NoCall
    /\ AuthFrame

\* getOrCreateProfile answers a caller's loadProfileWithRetry
ProfileAnswered(caller, ok) ==
    /\ auth.mounted /\ auth.loads[caller].pc = "calling"
    /\ auth' = Stepped(auth, caller, Answered(auth.loads[caller], ok, MAX_RETRY))
    /\ ret' = NoCall
    /\ AuthFrame

\* the wait of attempt x 1000 ms is over
WaitElapsed(caller) ==
    /\ auth.mounted /\ auth.loads[caller].pc = "waiting"
    /\ auth' = Stepped(auth, caller, NextAttempt(auth.loads[caller], MAX_RETRY))
    /\ ret' = NoCall
    /\ AuthFrame

-----------------------------------------------------------------------------
(* SpecAuth: AuthProvider from its mounting on *)

InitAuth ==
    /\ now = FirstDay * MsPerDay + 2
    /\ tz = "UTC"
    /\ tasks = {}
    /\ habit_logs = {}
    /\ ret = NoCall
    /\ focus_sessions = {}
    /\ timer = TimerUnmounted
    /\ auth = AuthUnmounted
    /\ app = AppUnmounted
    /\ user_profiles = {}
    /\ profile_calls = <<>>

NextAuth ==
    \/ AuthMount
    \/ TimeoutFires
    \/ \E u \in Users \cup {NoUser} : SessionResolved(u)
    \/ SessionRejected
    \/ \E u \in Users \cup {NoUser} : AuthStateChange(u)
    \/ RetryLoadProfile
    \/ \E c \in Callers, ok \in BOOLEAN : ProfileAnswered(c, ok)
    \/ \E c \in Callers : WaitElapsed(c)

SpecAuth == InitAuth /\ [][NextAuth]_vars

\* the steps that the browser takes by itself: mounting, and timers that
\* are set fire; no answer of the backend is certain
AuthFairness ==
    /\ WF_vars(AuthMount)
    /\ WF_vars(TimeoutFires)
    /\ \A c \in Callers : WF_vars(WaitElapsed(c))

SpecAuthLive == SpecAuth /\ AuthFairness

-----------------------------------------------------------------------------
(* AuthProvider claims *)

\* C19: after AuthProvider mounts, loading eventually becomes false, whatever
\* the backend requests do.
C19_LoadingEnds == <>(auth.mounted /\ ~auth.loading)

\* the delays of the waits after the first n failed attempts
Backoff(n) == [k \in 1..n |-> k * 1000]

-----------------------------------------------------------------------------
(* The profile service: getOrCreateProfile, updateProfile, addXp            *)
(*                                                                          *)
(* A row of user_profiles is modelled without its id and its timestamps.    *)
(* A text (an email address, a nickname) is the sequence of its characters. *)
(* A call that awaits the store twice is two steps: the step in which its   *)
(* first request is evaluated and the step in which its second one is.      *)

\* the calls of the profile service in one run
MaxCalls == 2

XP_PER_LEVEL == 1200

\* the titles xin shou tan suo zhe, xi guan xue tu, jin jie shi jian zhe,
\* zi shen jian shou zhe, xi guan da shi, chuan qi zong shi
RANKS == <<"novice explorer", "habit apprentice", "advanced practitioner",
           "senior keeper", "habit master", "legendary grandmaster">>

Min(a, b) == IF a <= b THEN a ELSE b

\* the addresses of the accounts: user.email ?? '' is empty for an account
\* without an address
Emails == {<<>>, <<"a", "@", "x">>, <<"b", "o", "@", "x">>}

\* email.split('@')[0]: the text before the first '@', the whole text when
\* it has none
RECURSIVE SplitAt0(_)
SplitAt0(email) ==
    IF email = <<>> \/ Head(email) = "@" THEN <<>>
    ELSE <<Head(email)>> \o SplitAt0(Tail(email))

\* .eq('user_id', userId): the rows of a user
ProfilesOf(userId) == {p \in user_profiles : p.user_id = userId}

\* the row getOrCreateProfile inserts
DefaultProfile(userId, email) ==
    [user_id |-> userId, nickname |-> SplitAt0(email), email |-> email, level |-> 1,
     xp |-> 0, rank |-> RANKS[1], streak |-> 0, max_streak |-> 0, dark_mode |-> TRUE]

\* the level-up step taken at most once
LevelUp_Once(newXp, newLevel) ==
    IF newXp >= XP_PER_LEVEL THEN [xp |-> newXp - XP_PER_LEVEL, level |-> newLevel + 1]
    ELSE [xp |-> newXp, level |-> newLevel]

\* while (newXp >= XP_PER_LEVEL) { newXp -= XP_PER_LEVEL; newLevel += 1; }
RECURSIVE LevelUp(_, _)
LevelUp(newXp, newLevel) ==
    IF newXp >= XP_PER_LEVEL THEN LevelUp(newXp - XP_PER_LEVEL, newLevel + 1)
    ELSE [xp |-> newXp, level |-> newLevel]

\* RANKS[Math.min(Math.floor(newLevel / 5), RANKS.length - 1)]
NewRank(newLevel) == RANKS[Min(newLevel \div 5, Len(RANKS) - 1) + 1]

\* the updates addXp hands to updateProfile
XpUpdates(profile, xpGain) ==
    LET up == LevelUp(profile.xp + xpGain, profile.level)
    IN  [xp |-> up.xp, level |-> up.level, rank |-> NewRank(up.level)]

\* update(updates).eq('user_id', userId): the row afterwards
Updated(row, updates) ==
    [row EXCEPT !.xp = updates.xp, !.level = updates.level, !.rank = updates.rank]

\* a call in profile_calls
ProfileCall(op, userId, arg, pc, read, failed, value) ==
    [op |-> op, user |-> userId, arg |-> arg, pc |-> pc, read |-> read,
     failed |-> failed, value |-> value]

\* nothing read, nothing returned
NoRow == <<>>

ProfileFrame == UNCHANGED <<now, tz, tasks, habit_logs, focus_sessions, timer, auth, app>>

\* user_id ... UNIQUE dropped: every insert is accepted
UniqueUserId_None(table, row) == TRUE

\* user_id UUID NOT NULL ... UNIQUE: whether the table accepts the row
UniqueUserId(table, row) == \A p \in table : p.user_id # row.user_id

\* .single(): the one row of a result, or none when it has no row or
\* several (the error PGRST116)
Single(rows) == IF Cardinality(rows) = 1 THEN CHOOSE p \in rows : TRUE ELSE NoRow

\* a call begins: it is the last of profile_calls
Begun(call) == Append(profile_calls, call)

\* getOrCreateProfile up to its return, its throw or the await of its insert
getOrCreateProfile(userId, email, selectFails) ==
    /\ Len(profile_calls) < MaxCalls
    /\ LET existing == IF selectFails THEN NoRow ELSE Single(ProfilesOf(userId))
       IN  IF existing # NoRow
           THEN /\ profile_calls' = Begun(ProfileCall("getOrCreateProfile", userId, email,
                                                      "done", existing, {}, existing))
                /\ ret' = Call("getOrCreateProfile", userId, email, {}, "ok", existing)
           ELSE IF ~selectFails \* selectError.code === 'PGRST116'
           THEN /\ profile_calls' = Begun(ProfileCall("getOrCreateProfile", userId, email,
                                                      "inserting", NoRow, {}, NoRow))
                /\ ret' = NoCall
           ELSE /\ profile_calls' = Begun(ProfileCall("getOrCreateProfile", userId, email,
                                                      "done", NoRow, {"select"}, NoRow))
                /\ ret' = Call("getOrCreateProfile", userId, email, {"select"}, "error", NoRow)
    /\ UNCHANGED user_profiles
    /\ ProfileFrame

\* the insert of getOrCreateProfile is answered
InsertAnswered(i, insertFails) ==
    /\ profile_calls[i].pc = "inserting"
    /\ LET c == profile_calls[i]
           row == DefaultProfile(c.user, c.arg)
       IN  IF insertFails \/ ~UniqueUserId(user_profiles, row)
           THEN /\ profile_calls' = [profile_calls EXCEPT ![i].pc = "done",
                                                          ![i].failed = {"insert"}]
                /\ ret' = Call("getOrCreateProfile", c.user, c.arg, {"insert"}, "error", NoRow)
                /\ UNCHANGED user_profiles
           ELSE /\ user_profiles' = user_profiles \cup {row}
                /\ profile_calls' = [profile_calls EXCEPT ![i].pc = "done", ![i].value = row]
                /\ ret' = Call("getOrCreateProfile", c.user, c.arg, {}, "ok", row)
    /\ ProfileFrame

\* addXp up to its throw or the await of updateProfile
addXp(userId, xpGain, fetchFails) ==
    /\ Len(profile_calls) < MaxCalls
    /\ LET profile == IF fetchFails THEN NoRow ELSE Single(ProfilesOf(userId))
       IN  IF profile = NoRow \* fetchError || !profile
           THEN /\ profile_calls' = Begun(ProfileCall("addXp", userId, xpGain, "done",
                                                      NoRow, {"fetch"}, NoRow))
                /\ ret' = Call("addXp", userId, [xpGain |-> xpGain, profile |-> NoRow],
                               {"fetch"}, "error", NoRow)
           ELSE /\ profile_calls' = Begun(ProfileCall("addXp", userId, xpGain, "updating",
                                                      profile, {}, NoRow))
                /\ ret' = NoCall
    /\ UNCHANGED user_profiles
    /\ ProfileFrame

\* updateProfile(userId, { xp, level, rank }) as addXp calls it
updateProfile(i, updateFails) ==
    /\ profile_calls[i].pc = "updating"
    /\ LET c == profile_calls[i]
           row == Single(ProfilesOf(c.user))
           arg == [xpGain |-> c.arg, profile |-> c.read]
       IN  IF updateFails \/ row = NoRow
           THEN /\ profile_calls' = [profile_calls EXCEPT ![i].pc = "done",
                                                          ![i].failed = {"update"}]
                /\ ret' = Call("addXp", c.user, arg, {"update"}, "error", NoRow)
                /\ UNCHANGED user_profiles
           ELSE LET data == Updated(row, XpUpdates(c.read, c.arg))
                IN  /\ user_profiles' = (user_profiles \ {row}) \cup {data}
                    /\ profile_calls' = [profile_calls EXCEPT ![i].pc = "done",
                                                              ![i].value = data]
                    /\ ret' = Call("addXp", c.user, arg, {}, "ok", data)
    /\ ProfileFrame

-----------------------------------------------------------------------------
(* SpecProfile: the profile service called for one user, its calls          *)
(* overlapping in every way, on every small table                           *)

\* the profiles the table starts with
StartLevels == {1, 4, 29}
StartXps == {0, 1160}

\* the experience a call adds: nothing, a focus session (40), a level, and
\* more than two levels
XpGains == {0, 40, 1200, 2440}

\* a row that an earlier run left for a user
Profile(userId, level, xp) ==
    [DefaultProfile(userId, <<"a", "@", "x">>) EXCEPT
        !.level = level, !.xp = xp, !.rank = NewRank(level)]

InitProfile ==
    /\ now = FirstDay * MsPerDay + 2
    /\ tz = "UTC"
    /\ tasks = {}
    /\ habit_logs = {}
    /\ ret = NoCall
    /\ focus_sessions = {}
    /\ timer = TimerUnmounted
    /\ auth = AuthUnmounted
    /\ app = AppUnmounted
    /\ \E mine \in SUBSET {Profile("u1", l, x) : l \in StartLevels, x \in StartXps},
          theirs \in SUBSET {Profile("u2", 1, 0)} :
          /\ Cardinality(mine) <= 1
          /\ user_profiles = mine \cup theirs
    /\ profile_calls = <<>>

NextProfile ==
    \/ \E email \in Emails, f \in BOOLEAN : getOrCreateProfile("u1", email, f)
    \/ \E i \in 1..Len(profile_calls), f \in BOOLEAN : InsertAnswered(i, f)
    \/ \E g \in XpGains, f \in BOOLEAN : addXp("u1", g, f)
    \/ \E i \in 1..Len(profile_calls), f \in BOOLEAN : updateProfile(i, f)

SpecProfile == InitProfile /\ [][NextProfile]_vars

-----------------------------------------------------------------------------
(* Profile service claims *)

\* the row of a user in the table after the step
StoredNext(userId) == Single({p \in user_profiles' : p.user_id = userId})

\* C21: addXp(user, gain) with gain >= 0 on a profile with 0 <= xp < 1200
\* stores and returns (level', xp') with 0 <= xp' < 1200, level' >= level,
\* 1200 x level' + xp' = 1200 x level + xp + gain and
\* rank' = RANKS[min(floor(level' / 5), 5)]; when the profile cannot be
\* fetched it throws and writes nothing.
C21_AddXpArithmetic ==
    [][ret'.op = "addXp" =>
          LET gain == ret'.arg.xpGain
              before == ret'.arg.profile
              after == StoredNext(ret'.user)
          IN  /\ (ret'.status = "ok" /\ gain >= 0 /\ 0 <= before.xp /\ before.xp < 1200) =>
                    /\ after # NoRow /\ ret'.value = after
                    /\ 0 <= after.xp /\ after.xp < 1200
                    /\ after.level >= before.level
                    /\ 1200 * after.level + after.xp
                          = 1200 * before.level + before.xp + gain
                    /\ after.rank = RANKS[Min(after.level \div 5, 5) + 1]
              /\ before = NoRow =>
                    /\ ret'.status = "error"
                    /\ user_profiles' = user_profiles
    ]_vars

\* addXp has taken a profile of level 4 with 1160 points over three levels
\* at once, into the second rank
C21_Witness ==
    /\ ret.op = "addXp" /\ ret.status = "ok"
    /\ ret.arg.xpGain = 2440 /\ ret.arg.profile.level = 4 /\ ret.arg.profile.xp = 1160
    /\ ret.value.level = 7 /\ ret.value.xp = 0 /\ ret.value.rank = RANKS[2]
    /\ ret.value \in user_profiles

\* the total experience of a profile
TotalXp(p) == 1200 * p.level + p.xp

\* the gains of the calls of a sequence, added up
RECURSIVE SumGains(_)
SumGains(calls) == IF calls = <<>> THEN 0 ELSE Head(calls).arg + SumGains(Tail(calls))

\* every call so far was an addXp for the user and has returned its row
AllAddXpDone(userId) ==
    /\ profile_calls # <<>>
    /\ \A i \in 1..Len(profile_calls) :
          LET c == profile_calls[i]
          IN  c.op = "addXp" /\ c.user = userId /\ c.pc = "done" /\ c.failed = {}

\* C27: after n addXp calls for the same user have all completed, under any
\* interleaving of their reads and writes, the stored total experience
\* 1200 x level + xp has grown by the sum of the n gains.
C27_NoGainLost ==
    \A u \in Users :
        AllAddXpDone(u) =>
            TotalXp(Single(ProfilesOf(u)))
                = TotalXp(profile_calls[1].read) + SumGains(profile_calls)

\* the positions of the '@' signs of an address
AtSigns(email) == {k \in 1..Len(email) : email[k] = "@"}

\* the local part of an address: what stands before its '@' sign
LocalPart(email) ==
    IF AtSigns(email) = {} THEN email
    ELSE LET last == CHOOSE k \in AtSigns(email) : \A j \in AtSigns(email) : j <= k
         IN  SubSeq(email, 1, last - 1)

\* C23: getOrCreateProfile(user, email) returns the existing profile
\* unchanged when one exists; it creates and returns a default profile
\* (level 1, xp 0, streak 0, max_streak 0, nickname = local part of the
\* email) only when the lookup reports not-found; it throws on any other
\* lookup error and on insert failure; and under any interleaving of
\* concurrent calls a user has at most one profile row.
C23_GetOrCreate ==
    [][ret'.op = "getOrCreateProfile" =>
          LET existed == ProfilesOf(ret'.user)
              lookedUp == Len(profile_calls') = Len(profile_calls) + 1
              created == user_profiles' \ user_profiles
          IN  /\ \A u \in Users : Cardinality({p \in user_profiles' : p.user_id = u}) <= 1
              /\ user_profiles \subseteq user_profiles'
              /\ (lookedUp /\ existed # {} /\ ret'.failed = {}) =>
                    /\ ret'.status = "ok" /\ {ret'.value} = existed
                    /\ created = {}
              /\ ret'.failed # {} => ret'.status = "error" /\ created = {}
              /\ created # {} =>
                    /\ ~lookedUp /\ existed = {}
                    /\ ret'.status = "ok" /\ created = {ret'.value}
                    /\ ret'.value.user_id = ret'.user
                    /\ ret'.value.level = 1 /\ ret'.value.xp = 0
                    /\ ret'.value.streak = 0 /\ ret'.value.max_streak = 0
                    /\ ret'.value.nickname = LocalPart(ret'.arg)
              /\ (ret'.status = "ok" /\ existed = {}) => created # {}
    ]_vars

\* two calls for a user without a profile overlapped: both lookups reported
\* not-found, one insert created the row, the other was refused
C23_Witness ==
    /\ Len(profile_calls) = 2
    /\ \A i \in 1..2 : profile_calls[i].op = "getOrCreateProfile"
                       /\ profile_calls[i].pc = "done"
    /\ profile_calls[1].failed = {"insert"}
    /\ profile_calls[2].failed = {}
    /\ ProfilesOf("u1") = {profile_calls[2].value}
    /\ profile_calls[2].value.nickname = <<"b", "o">>

-----------------------------------------------------------------------------
(* AuthProvider: whose profile is shown *)

\* no activation of loadProfileWithRetry is running
LoadsSettled == \A c \in Callers : auth.loads[c].pc \in {"idle", "returned"}

\* C26: once all in-flight profile loads have settled, the profile belongs
\* to the current user: user = null implies profile = null, and a profile
\* that is not null has the user_id of the user.
C26_ProfileBelongsToUser ==
    (auth.mounted /\ LoadsSettled) =>
        /\ auth.user = NoUser => auth.profile = NoProfile
        /\ auth.profile # NoProfile => auth.profile.user_id = auth.user

-----------------------------------------------------------------------------
(* AppContent from its mounting: the task load effect and the change of     *)
(* the user                                                                 *)
(*                                                                          *)
(* app.stored tells what localStorage holds under the cache key of a user:  *)
(* "none" (no item), "list" (the JSON text of the list app.cache has for    *)
(* the user) or "garbage" (a text that JSON.parse rejects).                 *)

\* the changes of the user AuthProvider hands to AppContent in one run
MaxSwitches == 3

\* the request getTodayTasks(user.id) of the load effect
Fetch(a) ==
    [kind |-> "getTodayTasks", id |-> 0, arg |-> FALSE, before |-> a.tasks,
     overlap |-> a.pending # {}, user |-> a.user]

\* step 1 of the load effect: the cached list is shown, an item that does
\* not parse is removed
CacheRead(a) ==
    CASE a.stored[a.user] = "list"    -> [a EXCEPT !.tasks = a.cache[a.user]]
      [] a.stored[a.user] = "garbage" -> [a EXCEPT !.stored[a.user] = "none",
                                                   !.cache[a.user] = <<>>]
      [] OTHER                        -> a

\* the effect on [user]: nothing without a user or once hasSyncedRef is
\* set; else the cache is read and getTodayTasks is issued
LoadEffect(a) ==
    IF a.user = NoUser \/ a.hasSynced THEN a
    ELSE [CacheRead([a EXCEPT !.hasSynced = TRUE]) EXCEPT
             !.pending = Overlapped(a.pending) \cup {Fetch(a)}]

\* useAuth() gives AppContent another user (sign-in, sign-out, switch): it
\* renders and its effect on [user] runs
UserChanged(userId) ==
    /\ app.mounted /\ app.switches < MaxSwitches
    /\ userId # app.user
    /\ app' = LoadEffect([app EXCEPT !.user = userId, !.switches = @ + 1])
    /\ ret' = NoCall
    /\ UNCHANGED <<now, tz, tasks, habit_logs, focus_sessions, timer, auth, profiles>>

\* getTodayTasks is answered: the then block, or the catch block
FetchAnswered(q, queryFails) ==
    /\ app.mounted /\ q \in app.pending /\ q.kind = "getTodayTasks"
    /\ LET rest == [app EXCEPT !.pending = @ \ {q}]
           fresh == ListOf(TodayTasks(TasksOf(q.user)))
       IN  IF queryFails
           THEN /\ app' = rest
                /\ ret' = Ended(q, {"tasks"}, "error", 0)
           ELSE /\ app' = ShownFor(rest, q.user, fresh)
                /\ ret' = Ended([q EXCEPT !.arg = fresh], {}, "ok", 0)
    /\ UNCHANGED <<now, tz, tasks, habit_logs, focus_sessions, timer, auth, profiles>>

-----------------------------------------------------------------------------
(* SpecSync: AppContent from its mounting on, with users signing in and out *)

\* the task of the second user
TheirTask == MaxTasks + MaxCreated + 1

\* a list that an earlier session left in the cache
StaleList == <<Item(1, TRUE)>>

InitSync ==
    /\ now = FirstDay * MsPerDay + 2
    /\ tz = "UTC"
    /\ tasks = {[id |-> id, user_id |-> "u1", completed |-> FALSE] : id \in TaskIds}
               \cup {[id |-> TheirTask, user_id |-> "u2", completed |-> FALSE]}
    /\ habit_logs = {}
    /\ ret = NoCall
    /\ focus_sessions = {}
    /\ timer = TimerUnmounted
    /\ auth = AuthUnmounted
    /\ user_profiles = {}
    /\ profile_calls = <<>>
    /\ \E mine \in {"none", "list", "garbage"}, theirs \in {"none", "list"} :
          app = [mounted |-> TRUE, user |-> NoUser, tasks |-> <<>>,
                 cache |-> [u \in Users |->
                              IF u = "u1" /\ mine = "list" THEN StaleList
                              ELSE IF u = "u2" /\ theirs = "list"
                                   THEN <<Item(TheirTask, FALSE)>> ELSE <<>>],
                 stored |-> [u \in Users |-> IF u = "u1" THEN mine ELSE theirs],
                 hasSynced |-> FALSE, pending |-> {}, created |-> 0, ops |-> 0,
                 switches |-> 0]

NextSync ==
    \/ \E u \in Users \cup {NoUser} : UserChanged(u)
    \/ \E q \in app.pending, f \in BOOLEAN : FetchAnswered(q, f)
    \/ \E id \in (0 - MaxCreated)..TheirTask : AppToggleTask(id)
    \/ AppAddTask
    \/ \E id \in (0 - MaxCreated)..TheirTask : AppDeleteTask(id)
    \/ AppAnswered

SpecSync == InitSync /\ [][NextSync]_vars

-----------------------------------------------------------------------------
(* Task load claims (SpecSync) *)

\* the rows of a user as getTodayTasks returns them, as tasks of the list
FreshList(userId) == ListOf(TodayTasks(TasksOf(userId)))

\* the step has given AppContent a signed-in user
SignedIn == app'.user # app.user /\ app'.user # NoUser

\* the steps of the load for a user who has signed in, of its fetch, and
\* the agreement of list and cache after a step
LoadSteps ==
    /\ SignedIn =>
          /\ app.stored[app'.user] = "list" => app'.tasks = app.cache[app'.user]
          /\ \E q \in app'.pending : q.kind = "getTodayTasks" /\ q.user = app'.user
    /\ (ret'.op = "getTodayTasks" /\ ret'.status = "ok") =>
          /\ app'.tasks = FreshList(ret'.user)
          /\ app'.stored[ret'.user] = "list"
          /\ app'.cache[ret'.user] = FreshList(ret'.user)
    /\ (ret'.op = "getTodayTasks" /\ ret'.status = "error") =>
          app'.tasks = app.tasks /\ app'.cache = app.cache /\ app'.stored = app.stored
    /\ app'.user # NoUser =>
          /\ app'.stored[app'.user] # "garbage"
          /\ app'.stored[app'.user] = "list" => app'.cache[app'.user] = app'.tasks
          /\ app'.stored[app'.user] = "none" => app'.tasks = <<>>

\* C22: once a user is authenticated, a valid cached list is put in state
\* before the backend fetch resolves; when the fetch succeeds the state and
\* the cache both become exactly the fetched rows; when it fails the cached
\* list stays displayed; an unparsable cache entry is removed; after every
\* handler step the cache entry of the user equals the in-memory list.
C22_StaleWhileRevalidate == [][LoadSteps]_vars

\* the same while the first user who signed in stays signed in
C22_ForTheFirstUser == [][app'.switches <= 1 => LoadSteps]_vars

\* no task of the list belongs to another user
OwnItems(list, userId) ==
    \A k \in DOMAIN list : \A r \in tasks : r.id = list[k].id => r.user_id = userId

\* C24: the list in memory and the cache entry of the signed-in user only
\* ever hold that user's tasks, also after another user has signed out and
\* this one has signed in within the same session.
C24_OnlyOwnTasks ==
    (app.mounted /\ app.user # NoUser) =>
        /\ OwnItems(app.tasks, app.user)
        /\ OwnItems(app.cache[app.user], app.user)

\* the same while the first user who signed in stays signed in
C24_ForTheFirstUser ==
    (app.mounted /\ app.user # NoUser /\ app.switches <= 1) =>
        /\ OwnItems(app.tasks, app.user)
        /\ OwnItems(app.cache[app.user], app.user)

-----------------------------------------------------------------------------
(* Overlapping optimistic operations (SpecApp) *)

\* a handler has ended in its catch block
RolledBack(kind) == ret'.op = kind /\ ret'.status = "error"

\* the step of a rollback leaves the list as it was but for the change of
\* the handler that failed, and the cache with the list
OwnChangeUndone ==
    /\ RolledBack("AppContent.toggleTask") =>
          app'.tasks = SetCompleted(app.tasks, ret'.arg, ~ret'.value.arg)
    /\ RolledBack("AppContent.addTask") =>
          app'.tasks = Without(app.tasks, ret'.arg)
    /\ RolledBack("AppContent.deleteTask") =>
          /\ Without(app'.tasks, ret'.arg) = Without(app.tasks, ret'.arg)
          /\ Listed(ret'.value.before, ret'.arg) => Listed(app'.tasks, ret'.arg)
    /\ \E kind \in {"AppContent.toggleTask", "AppContent.addTask", "AppContent.deleteTask"} :
          RolledBack(kind)
       => app'.cache[ret'.user] = app'.tasks

\* C25: when optimistic operations overlap and one of them fails, its
\* rollback undoes only its own change: the effects of the other operations
\* remain in the task list and in the cache.
C25_RollbackUndoesOwnChange == [][OwnChangeUndone]_vars

\* the same for the handlers that ran with no other request in flight
C25_WhenAlone == [][(ret'.status = "error" /\ ret'.value.alone) => OwnChangeUndone]_vars

-----------------------------------------------------------------------------
(* Chart labels (SpecFocus) *)

\* the labels of the zero template of a period: the seven weekday names,
\* the weeks 1 to 4 of the month, the quarters Q1 to Q4
TemplateLabels(period) ==
    CASE period = "week"  -> {"Mon", "Tue", "Wed", "Thu", "Fri", "Sat", "Sun"}
      [] period = "month" -> {"W1", "W2", "W3", "W4"}
      [] period = "year"  -> {"Q1", "Q2", "Q3", "Q4"}

\* C28: for the periods week, month and year, every bucket label
\* getFocusChartData emits belongs to the label set of the zero template of
\* that period, for every session timestamp in the filter window.
C28_LabelsWithinTemplate ==
    (ChartReturned /\ ret.arg \in {"week", "month", "year"}) =>
        \A k \in DOMAIN ret.value : ret.value[k].name \in TemplateLabels(ret.arg)

\* the same for the periods week and year
C28_WeekAndYear ==
    (ChartReturned /\ ret.arg \in {"week", "year"}) =>
        \A k \in DOMAIN ret.value : ret.value[k].name \in TemplateLabels(ret.arg)

\* the template of the Statistics page has the labels the claim names
C28_TemplateAsClaimed ==
    \A p \in {"week", "month", "year"} :
        {DefaultLabels(p)[k] : k \in DOMAIN DefaultLabels(p)} = TemplateLabels(p)

-----------------------------------------------------------------------------
(* SpecToggle: toggleTask in any sequence on every small log *)

\* the rows a drawn log is made of: a habit of u1 over three days, another
\* of u1 and one of u2 yesterday and today
ToggleRows ==
    {[user_id |-> "u1", task_id |-> 1, completed_date |-> d] :
        d \in (StreakDay - 2)..StreakDay}
    \cup {[user_id |-> "u1", task_id |-> 2, completed_date |-> d] :
        d \in (StreakDay - 1)..StreakDay}
    \cup {[user_id |-> "u2", task_id |-> 3, completed_date |-> StreakDay]}

InitToggle ==
    /\ now \in {StreakDay * MsPerDay + h : h \in SampleHours}
    /\ tz \in TimeZones
    /\ habit_logs \in {S \in SUBSET ToggleRows : Cardinality(S) <= MaxRows}
    /\ tasks = TasksFor(ToggleRows)
    /\ ret = NoCall
    /\ AtRest

NextToggle ==
    \E id \in 1..3, u \in Users, c \in BOOLEAN, f \in BOOLEAN, g \in BOOLEAN :
        toggleTask(id, u, c, f, g)

SpecToggle == InitToggle /\ [][NextToggle]_vars

-----------------------------------------------------------------------------
(* Un-completing a task (SpecToggle) *)

\* the rows of a log that the queries of the aggregations select
OwnRowsSince(logs, userId, since) ==
    {l \in logs : l.user_id = userId /\ l.completed_date >= since}

\* what the aggregations give an owner on a log now: the count of today's
\* heatmap cell, the streaks, the completed count of the month
TodayCount(logs, userId) ==
    HeatmapCells(OwnRowsSince(logs, userId, CellDate(now, 0, tz)), 0, now, tz)[1].count
StreakNow(logs, userId) == StreakOf(RowsDesc(OwnRowsSince(logs, userId, 0)), now)
MonthCompleted(logs, userId) ==
    Cardinality(OwnRowsSince(logs, userId, ISODate(FirstOfMonth(now, tz))))

\* C29: toggleTask(id, user, completed = false) leaves habit_logs unchanged,
\* and a toggleTask whose task update fails writes no log; no toggle removes
\* an event, so today's heatmap count, the streak and the monthly completed
\* count never decrease through a toggle.
C29_UncompleteKeepsEvents ==
    [][ret'.op = "toggleTask" =>
          /\ habit_logs \subseteq habit_logs'
          /\ (ret'.status = "error" \/ ~ret'.value.completed) => habit_logs' = habit_logs
          /\ \A u \in Users :
                LET before == habit_logs
                    after == habit_logs'
                IN  \* on an unchanged log each comparison is of a value with itself
                    after # before =>
                        /\ TodayCount(after, u) >= TodayCount(before, u)
                        /\ StreakNow(after, u).currentStreak
                              >= StreakNow(before, u).currentStreak
                        /\ StreakNow(after, u).maxStreak >= StreakNow(before, u).maxStreak
                        /\ MonthCompleted(after, u) >= MonthCompleted(before, u)
    ]_vars

\* a task completed today has been un-completed: its event of today is
\* still there and still counts for the streak
C29_Witness ==
    /\ ret.op = "toggleTask" /\ ret.status = "ok" /\ ~ret.value.completed
    /\ EventsFor(ret.user, ret.arg, Today) # {}
    /\ StreakNow(habit_logs, ret.user).currentStreak >= 1
=============================================================================
